---- MODULE Spec2Model ----
(***************************************************************************)
(* A model of sor4chi/json-parser: the lexer (crates/parser/src/lexer.rs), *)
(* the parser (crates/parser/src/parse.rs) and the formatter               *)
(* (crates/formatter/src/format.rs), driven as the pipeline                *)
(* text -> tokens -> tree -> text.                                         *)
(*                                                                         *)
(* Text is a sequence of one-character strings.  A Rust call ends in one   *)
(* of three ways, kept apart in every result record: "ok" (a value),       *)
(* "err" (a returned Err(String)) and "panic" (panic!/unreachable!).       *)
(***************************************************************************)
EXTENDS Integers, Sequences, FiniteSets, TLC

\* ------------------------------------------------------------------ text

Digits == <<"0", "1", "2", "3", "4", "5", "6", "7", "8", "9">>

AsciiDigit == {Digits[i] : i \in 1..10}

AsciiLower ==
    {"a", "b", "c", "d", "e", "f", "g", "h", "i", "j", "k", "l", "m",
     "n", "o", "p", "q", "r", "s", "t", "u", "v", "w", "x", "y", "z"}

AsciiUpper ==
    {"A", "B", "C", "D", "E", "F", "G", "H", "I", "J", "K", "L", "M",
     "N", "O", "P", "Q", "R", "S", "T", "U", "V", "W", "X", "Y", "Z"}

\* char::is_whitespace, on the characters the model uses
is_whitespace(c) == c \in {" ", "\t", "\n", "\r"}

\* char::is_numeric, on the characters the model uses
is_numeric(c) == c \in AsciiDigit

\* char::is_alphanumeric, on the characters the model uses
is_alphanumeric(c) == c \in AsciiDigit \cup AsciiLower \cup AsciiUpper

\* ---------------------------------------------------------------- numbers
\* An f64 the lexer can produce from a short run of digits and dots is the
\* exact decimal m / 10^s, kept normalised (no trailing zero in the
\* fraction), which is what makes two equal floats equal records.

RECURSIVE Pow10(_)
Pow10(n) == IF n = 0 THEN 1 ELSE 10 * Pow10(n - 1)

RECURSIVE Normalise(_, _)
Normalise(m, s) ==
    IF s > 0 /\ m % 10 = 0 THEN Normalise(m \div 10, s - 1)
    ELSE [m |-> m, s |-> s]

DigitValue(c) == CHOOSE i \in 0..9 : Digits[i + 1] = c

RECURSIVE DigitsValue(_)
DigitsValue(ds) ==
    IF ds = <<>> THEN 0
    ELSE 10 * DigitsValue(SubSeq(ds, 1, Len(ds) - 1)) + DigitValue(ds[Len(ds)])

CountOf(c, s) == Cardinality({i \in 1..Len(s) : s[i] = c})

\* str::parse::<f64> on a run of digits and '.' that starts with a digit:
\* one '.' at most, and digits may be missing on either side of it.
parse_f64(s) ==
    IF s = <<>> \/ CountOf(".", s) > 1 \/ \A i \in 1..Len(s) : s[i] = "."
    THEN [ok |-> FALSE, value |-> [m |-> 0, s |-> 0]]
    ELSE LET ds == SelectSeq(s, LAMBDA c : c # ".")
             frac == IF CountOf(".", s) = 0 THEN 0
                     ELSE Len(s) - (CHOOSE i \in 1..Len(s) : s[i] = ".")
         IN [ok |-> TRUE, value |-> Normalise(DigitsValue(ds), frac)]

RECURSIVE NatDigits(_)
NatDigits(n) ==
    IF n < 10 THEN <<Digits[n + 1]>>
    ELSE NatDigits(n \div 10) \o <<Digits[(n % 10) + 1]>>

RECURSIVE PadZeros(_, _)
PadZeros(ds, width) ==
    IF Len(ds) >= width THEN ds ELSE PadZeros(<<"0">> \o ds, width)

\* f64::to_string (Display): the shortest decimal that reads back as the
\* same float, no exponent, no fraction for an integral value.
f64_to_string(v) ==
    IF v.s = 0 THEN NatDigits(v.m)
    ELSE NatDigits(v.m \div Pow10(v.s)) \o <<".">>
           \o PadZeros(NatDigits(v.m % Pow10(v.s)), v.s)

\* ----------------------------------------------------------------- tokens
\* enum Token; every token is a record of the same shape so that any two
\* compare.

NoNumber == [m |-> 0, s |-> 0]

Tok(type) == [type |-> type, text |-> <<>>, value |-> NoNumber, flag |-> FALSE]

StringValue(text) == [Tok("StringValue") EXCEPT !.text = text]

NumberValue(v) == [Tok("NumberValue") EXCEPT !.value = v]

BooleanValue(b) == [Tok("BooleanValue") EXCEPT !.flag = b]

\* static CHAR_TOKENS
CHAR_TOKENS ==
    [c \in {"{", "}", "[", "]", ":", ","} |->
        CASE c = "{" -> Tok("LBrace")
          [] c = "}" -> Tok("RBrace")
          [] c = "[" -> Tok("LBracket")
          [] c = "]" -> Tok("RBracket")
          [] c = ":" -> Tok("Colon")
          [] c = "," -> Tok("Comma")]

KwTrue == <<"t", "r", "u", "e">>

KwFalse == <<"f", "a", "l", "s", "e">>

KwNull == <<"n", "u", "l", "l">>

\* static KEYWORD_TOKENS
KEYWORD_TOKENS ==
    [k \in {KwTrue, KwFalse, KwNull} |->
        CASE k = KwTrue -> BooleanValue(TRUE)
          [] k = KwFalse -> BooleanValue(FALSE)
          [] k = KwNull -> Tok("NullValue")]

\* ------------------------------------------------------------------ lexer
\* The char_stream is the text cs and the index pos of the next character
\* (pos > Len(cs): exhausted).  Every operation returns the token and the
\* position it leaves the stream at, or a panic.

LexOk(token, pos) == [kind |-> "ok", token |-> token, pos |-> pos, msg |-> ""]

LexPanic(msg, pos) == [kind |-> "panic", token |-> Tok("End"), pos |-> pos, msg |-> msg]

Lexer_consume_char(cs, pos) ==
    IF pos > Len(cs) THEN LexPanic("Unexpected char of input", pos)
    ELSE IF cs[pos] \in DOMAIN CHAR_TOKENS
         THEN LexOk(CHAR_TOKENS[cs[pos]], pos + 1)
         ELSE LexPanic("Unexpected character", pos + 1)

\* consume_string taking a backslash and the character after it as one
\* escaped character of the string
RECURSIVE StringLoop_Escapes(_, _, _)
StringLoop_Escapes(cs, pos, s) ==
    IF pos > Len(cs) THEN LexPanic("Unexpected end of input", pos)
    ELSE IF cs[pos] = "\\" /\ pos < Len(cs)
         THEN StringLoop_Escapes(cs, pos + 2, s \o <<cs[pos], cs[pos + 1]>>)
    ELSE IF cs[pos] = "\"" THEN LexOk(StringValue(s), pos + 1)
    ELSE StringLoop_Escapes(cs, pos + 1, Append(s, cs[pos]))

\* the loop of consume_string: s is the text gathered so far
RECURSIVE StringLoop(_, _, _)
StringLoop(cs, pos, s) ==
    IF pos > Len(cs) THEN LexPanic("Unexpected end of input", pos)
    ELSE IF cs[pos] = "\"" THEN LexOk(StringValue(s), pos + 1)
    ELSE StringLoop(cs, pos + 1, Append(s, cs[pos]))

Lexer_consume_string(cs, pos) ==
    StringLoop(cs, IF pos <= Len(cs) /\ cs[pos] = "\"" THEN pos + 1 ELSE pos, <<>>)

\* consume_number ending the run at the first character that is no digit
RECURSIVE NumberLoop_DigitsOnly(_, _)
NumberLoop_DigitsOnly(cs, pos) ==
    IF pos <= Len(cs) /\ is_numeric(cs[pos])
    THEN NumberLoop_DigitsOnly(cs, pos + 1) ELSE pos

\* the loop of consume_number: the end of the run of digits and dots
RECURSIVE NumberLoop(_, _)
NumberLoop(cs, pos) ==
    IF pos <= Len(cs) /\ (is_numeric(cs[pos]) \/ cs[pos] = ".")
    THEN NumberLoop(cs, pos + 1) ELSE pos

Lexer_consume_number(cs, pos) ==
    LET end == NumberLoop(cs, pos)
        r == parse_f64(SubSeq(cs, pos, end - 1))
    IN IF r.ok THEN LexOk(NumberValue(r.value), end)
       ELSE LexPanic("Unexpected number", end)

\* consume_keyword ending the run at the first character that is no letter
RECURSIVE KeywordLoop_LettersOnly(_, _)
KeywordLoop_LettersOnly(cs, pos) ==
    IF pos <= Len(cs) /\ cs[pos] \in AsciiLower \cup AsciiUpper
    THEN KeywordLoop_LettersOnly(cs, pos + 1) ELSE pos

\* the loop of consume_keyword: the end of the alphanumeric run
RECURSIVE KeywordLoop(_, _)
KeywordLoop(cs, pos) ==
    IF pos <= Len(cs) /\ is_alphanumeric(cs[pos])
    THEN KeywordLoop(cs, pos + 1) ELSE pos

Lexer_consume_keyword(cs, pos) ==
    LET end == KeywordLoop(cs, pos)
        keyword == SubSeq(cs, pos, end - 1)
    IN IF keyword \in DOMAIN KEYWORD_TOKENS
       THEN LexOk(KEYWORD_TOKENS[keyword], end)
       ELSE LexPanic("Unexpected keyword", end)

\* consume_whitespace skipping the space character only
RECURSIVE Lexer_consume_whitespace_SpacesOnly(_, _)
Lexer_consume_whitespace_SpacesOnly(cs, pos) ==
    IF pos <= Len(cs) /\ cs[pos] = " "
    THEN Lexer_consume_whitespace_SpacesOnly(cs, pos + 1) ELSE pos

RECURSIVE Lexer_consume_whitespace(_, _)
Lexer_consume_whitespace(cs, pos) ==
    IF pos <= Len(cs) /\ is_whitespace(cs[pos])
    THEN Lexer_consume_whitespace(cs, pos + 1) ELSE pos

\* next_token stepping over a character no token starts with
RECURSIVE Lexer_next_token_SkipsUnknown(_, _)
Lexer_next_token_SkipsUnknown(cs, pos0) ==
    LET pos == Lexer_consume_whitespace(cs, pos0)
    IN IF pos > Len(cs) THEN LexOk(Tok("End"), pos)
       ELSE LET c == cs[pos]
            IN CASE c \in {"{", "}", "[", "]", ":", ","} -> Lexer_consume_char(cs, pos)
                 [] c = "\"" -> Lexer_consume_string(cs, pos)
                 [] c \in AsciiDigit -> Lexer_consume_number(cs, pos)
                 [] c \in AsciiLower \cup AsciiUpper -> Lexer_consume_keyword(cs, pos)
                 [] OTHER -> Lexer_next_token_SkipsUnknown(cs, pos + 1)

Lexer_next_token(cs, pos0) ==
    LET pos == Lexer_consume_whitespace(cs, pos0)
    IN IF pos > Len(cs) THEN LexOk(Tok("End"), pos)
       ELSE LET c == cs[pos]
            IN CASE c \in {"{", "}", "[", "]", ":", ","} -> Lexer_consume_char(cs, pos)
                 [] c = "\"" -> Lexer_consume_string(cs, pos)
                 [] c \in AsciiDigit -> Lexer_consume_number(cs, pos)
                 [] c \in AsciiLower \cup AsciiUpper -> Lexer_consume_keyword(cs, pos)
                 [] OTHER -> LexPanic("Unexpected character", pos)

\* tokenize leaving the loop at End before pushing it
RECURSIVE TokenizeLoop_DropsEnd(_, _, _)
TokenizeLoop_DropsEnd(cs, pos, tokens) ==
    LET r == Lexer_next_token(cs, pos)
    IN IF r.kind = "panic" THEN [kind |-> "panic", tokens |-> <<>>, msg |-> r.msg]
       ELSE IF r.token = Tok("End")
            THEN [kind |-> "ok", tokens |-> tokens, msg |-> ""]
            ELSE TokenizeLoop_DropsEnd(cs, r.pos, Append(tokens, r.token))

\* the loop of tokenize: tokens is the vector pushed so far
RECURSIVE TokenizeLoop(_, _, _)
TokenizeLoop(cs, pos, tokens) ==
    LET r == Lexer_next_token(cs, pos)
    IN IF r.kind = "panic" THEN [kind |-> "panic", tokens |-> <<>>, msg |-> r.msg]
       ELSE IF r.token = Tok("End")
            THEN [kind |-> "ok", tokens |-> Append(tokens, r.token), msg |-> ""]
            ELSE TokenizeLoop(cs, r.pos, Append(tokens, r.token))

Lexer_tokenize(cs) == TokenizeLoop(cs, 1, <<>>)

\* ------------------------------------------------------------------ nodes
\* struct Node { kind, children }; the payload of StringLiteral, Identifier
\* and NumberLiteral is carried in text and value.

MkNode(kind, children) ==
    [kind |-> kind, text |-> <<>>, value |-> NoNumber, children |-> children]

StringLiteral(text) == [MkNode("StringLiteral", <<>>) EXCEPT !.text = text]

Identifier(text) == [MkNode("Identifier", <<>>) EXCEPT !.text = text]

NumberLiteral(v) == [MkNode("NumberLiteral", <<>>) EXCEPT !.value = v]

NoNode == MkNode("End", <<>>)

\* ----------------------------------------------------------------- parser
\* The token_stream is the vector ts and the index pos of the next token
\* (pos > Len(ts): the iterator is exhausted and peek/next give None).

POk(node, pos) == [kind |-> "ok", node |-> node, pos |-> pos, msg |-> ""]

PErr(msg, pos) == [kind |-> "err", node |-> NoNode, pos |-> pos, msg |-> msg]

PPanic(msg, pos) == [kind |-> "panic", node |-> NoNode, pos |-> pos, msg |-> msg]

\* Option<&Token> of peek_token: the type of the next token, "None" at the end
peek_token(ts, pos) == IF pos <= Len(ts) THEN ts[pos].type ELSE "None"

\* the position next_token leaves the stream at
next_token(ts, pos) == IF pos <= Len(ts) THEN pos + 1 ELSE pos

Parser_consume_string(ts, pos) ==
    CASE peek_token(ts, pos) = "StringValue" ->
            POk(StringLiteral(ts[pos].text), next_token(ts, pos))
      [] peek_token(ts, pos) = "None" -> PPanic("Unexpected end of input", pos)
      [] OTHER -> PPanic("Unexpected token", next_token(ts, pos))

Parser_consume_number(ts, pos) ==
    CASE peek_token(ts, pos) = "NumberValue" ->
            POk(NumberLiteral(ts[pos].value), next_token(ts, pos))
      [] peek_token(ts, pos) = "None" -> PPanic("Unexpected end of input", pos)
      [] OTHER -> PPanic("Unexpected token", next_token(ts, pos))

Parser_consume_keyword(ts, pos) ==
    CASE peek_token(ts, pos) = "BooleanValue" /\ ts[pos].flag ->
            POk(MkNode("TrueKeyword", <<>>), next_token(ts, pos))
      [] peek_token(ts, pos) = "BooleanValue" /\ ~ts[pos].flag ->
            POk(MkNode("FalseKeyword", <<>>), next_token(ts, pos))
      [] peek_token(ts, pos) = "NullValue" ->
            POk(MkNode("NullKeyword", <<>>), next_token(ts, pos))
      [] peek_token(ts, pos) = "None" -> PPanic("Unexpected token of input", pos)
      [] OTHER -> PPanic("Unexpected token", next_token(ts, pos))

RECURSIVE consume_value(_, _)
RECURSIVE ObjectLoop(_, _, _)
RECURSIVE ArrayLoop(_, _, _)

\* consume_property_assignment handing back the value without the
\* PropertyAssignment around it
consume_property_assignment_Unwrapped(ts, pos) ==
    IF peek_token(ts, pos) # "StringValue"
    THEN PErr("Unexpected token of input", pos)
    ELSE consume_value(ts, next_token(ts, next_token(ts, pos)))

\* consume_property_assignment with the key as a StringLiteral child
consume_property_assignment_LiteralKey(ts, pos) ==
    IF peek_token(ts, pos) # "StringValue"
    THEN PErr("Unexpected token of input", pos)
    ELSE LET property_name == ts[pos].text
             r == consume_value(ts, next_token(ts, next_token(ts, pos)))
         IN IF r.kind = "ok"
            THEN POk(MkNode("PropertyAssignment",
                            <<StringLiteral(property_name), r.node>>), r.pos)
            ELSE r

\* consume_property_assignment that requires a colon after the key
consume_property_assignment_ChecksColon(ts, pos) ==
    IF peek_token(ts, pos) # "StringValue"
    THEN PErr("Unexpected token of input", pos)
    ELSE IF peek_token(ts, next_token(ts, pos)) # "Colon"
    THEN PErr("Unexpected token of input", next_token(ts, pos))
    ELSE LET property_name == ts[pos].text
             r == consume_value(ts, next_token(ts, next_token(ts, pos)))
         IN IF r.kind = "ok"
            THEN POk(MkNode("PropertyAssignment",
                            <<Identifier(property_name), r.node>>), r.pos)
            ELSE r

consume_property_assignment(ts, pos) ==
    IF peek_token(ts, pos) # "StringValue"
    THEN PErr("Unexpected token of input", pos)
    ELSE LET property_name == ts[pos].text
             r == consume_value(ts, next_token(ts, next_token(ts, pos)))
         IN IF r.kind = "ok"
            THEN POk(MkNode("PropertyAssignment",
                            <<Identifier(property_name), r.node>>), r.pos)
            ELSE r

\* the loop of consume_object
ObjectLoop(ts, pos, property_assignments) ==
    CASE peek_token(ts, pos) = "RBrace" ->
            POk(MkNode("ObjectLiteralExpression", property_assignments),
                next_token(ts, pos))
      [] peek_token(ts, pos) = "StringValue" ->
            LET r == consume_property_assignment(ts, pos)
            IN IF r.kind = "ok"
               THEN ObjectLoop(ts, r.pos, Append(property_assignments, r.node))
               ELSE r
      [] peek_token(ts, pos) = "Comma" ->
            ObjectLoop(ts, next_token(ts, pos), property_assignments)
      [] OTHER -> PErr("Unexpected token of input", pos)

consume_object(ts, pos) == ObjectLoop(ts, next_token(ts, pos), <<>>)

\* consume_array with End taken for the closing bracket
ArrayLoop_EndCloses(ts, pos, elements) ==
    CASE peek_token(ts, pos) \in {"RBracket", "End"} ->
            POk(MkNode("ArrayLiteralExpression", elements), next_token(ts, pos))
      [] peek_token(ts, pos) \in {"StringValue", "NumberValue", "BooleanValue",
                                  "NullValue", "LBrace", "LBracket"} ->
            LET r == consume_value(ts, pos)
            IN IF r.kind = "ok"
               THEN ArrayLoop(ts, r.pos, Append(elements, r.node))
               ELSE r
      [] peek_token(ts, pos) = "Comma" ->
            ArrayLoop(ts, next_token(ts, pos), elements)
      [] OTHER -> PErr("Unexpected token of input", pos)

\* consume_array with a closing brace taken for the closing bracket
ArrayLoop_BraceCloses(ts, pos, elements) ==
    CASE peek_token(ts, pos) \in {"RBracket", "RBrace"} ->
            POk(MkNode("ArrayLiteralExpression", elements), next_token(ts, pos))
      [] peek_token(ts, pos) \in {"StringValue", "NumberValue", "BooleanValue",
                                  "NullValue", "LBrace", "LBracket"} ->
            LET r == consume_value(ts, pos)
            IN IF r.kind = "ok"
               THEN ArrayLoop(ts, r.pos, Append(elements, r.node))
               ELSE r
      [] peek_token(ts, pos) = "Comma" ->
            ArrayLoop(ts, next_token(ts, pos), elements)
      [] OTHER -> PErr("Unexpected token of input", pos)

\* consume_array with a comma that must be followed by an element
ArrayLoop_CommaNeedsValue(ts, pos, elements) ==
    CASE peek_token(ts, pos) = "RBracket" ->
            POk(MkNode("ArrayLiteralExpression", elements), next_token(ts, pos))
      [] peek_token(ts, pos) \in {"StringValue", "NumberValue", "BooleanValue",
                                  "NullValue", "LBrace", "LBracket"} ->
            LET r == consume_value(ts, pos)
            IN IF r.kind = "ok"
               THEN ArrayLoop(ts, r.pos, Append(elements, r.node))
               ELSE r
      [] peek_token(ts, pos) = "Comma" ->
            IF peek_token(ts, next_token(ts, pos)) \in {"Comma", "RBracket"}
            THEN PErr("Unexpected token of input", next_token(ts, pos))
            ELSE ArrayLoop(ts, next_token(ts, pos), elements)
      [] OTHER -> PErr("Unexpected token of input", pos)

\* the loop of consume_array
ArrayLoop(ts, pos, elements) ==
    CASE peek_token(ts, pos) = "RBracket" ->
            POk(MkNode("ArrayLiteralExpression", elements), next_token(ts, pos))
      [] peek_token(ts, pos) \in {"StringValue", "NumberValue", "BooleanValue",
                                  "NullValue", "LBrace", "LBracket"} ->
            LET r == consume_value(ts, pos)
            IN IF r.kind = "ok"
               THEN ArrayLoop(ts, r.pos, Append(elements, r.node))
               ELSE r
      [] peek_token(ts, pos) = "Comma" ->
            ArrayLoop(ts, next_token(ts, pos), elements)
      [] OTHER -> PErr("Unexpected token of input", pos)

consume_array(ts, pos) == ArrayLoop(ts, next_token(ts, pos), <<>>)

\* consume_value that takes the token it rejects
consume_value_ConsumesOnError(ts, pos) ==
    CASE peek_token(ts, pos) = "StringValue" -> Parser_consume_string(ts, pos)
      [] peek_token(ts, pos) = "NumberValue" -> Parser_consume_number(ts, pos)
      [] peek_token(ts, pos) \in {"BooleanValue", "NullValue"} ->
            Parser_consume_keyword(ts, pos)
      [] peek_token(ts, pos) = "LBrace" -> consume_object(ts, pos)
      [] peek_token(ts, pos) = "LBracket" -> consume_array(ts, pos)
      [] OTHER -> PErr("Unexpected token of input", next_token(ts, pos))

consume_value(ts, pos) ==
    CASE peek_token(ts, pos) = "StringValue" -> Parser_consume_string(ts, pos)
      [] peek_token(ts, pos) = "NumberValue" -> Parser_consume_number(ts, pos)
      [] peek_token(ts, pos) \in {"BooleanValue", "NullValue"} ->
            Parser_consume_keyword(ts, pos)
      [] peek_token(ts, pos) = "LBrace" -> consume_object(ts, pos)
      [] peek_token(ts, pos) = "LBracket" -> consume_array(ts, pos)
      [] OTHER -> PErr("Unexpected token of input", pos)

\* parse with any value taken for a root
ParseResult_AnyValue(ts) == consume_value(ts, 1)

\* Parser::parse: the Err of a production becomes a panic
ParseResult(ts) ==
    CASE peek_token(ts, 1) = "LBrace" -> consume_object(ts, 1)
      [] peek_token(ts, 1) = "LBracket" -> consume_array(ts, 1)
      [] OTHER -> PErr("Unexpected the first token of input", 1)

\* parse handing the Err of the production to its caller
Parser_parse_ReturnsErr(ts) == ParseResult(ts)

\* parse that asks for End after the root
Parser_parse_RequiresEnd(ts) ==
    LET result == ParseResult(ts)
    IN IF result.kind = "ok" /\ peek_token(ts, result.pos) = "End" THEN result
       ELSE PPanic(result.msg, result.pos)

Parser_parse(ts) ==
    LET result == ParseResult(ts)
    IN IF result.kind = "ok" THEN result
       ELSE PPanic(result.msg, result.pos)

\* ------------------------------------------- the parser of src/src/node.rs
\* The earlier revision: SyntaxKind is the tree, PropertyAssignment(String,
\* Box<SyntaxKind>) holds its key itself (text) and has its value as its
\* only child, and every production panics where the later one returns Err.

\* consume_token: next_token, a panic when the stream is exhausted
Old_consume_token(ts, pos) ==
    IF pos <= Len(ts) THEN POk(NoNode, pos + 1)
    ELSE PPanic("Unexpected token of input", pos)

Old_consume_string(ts, pos) ==
    LET t == Old_consume_token(ts, pos)
    IN IF t.kind # "ok" THEN t
       ELSE IF ts[pos].type = "StringValue" THEN POk(StringLiteral(ts[pos].text), t.pos)
       ELSE PPanic("Unexpected token of input", t.pos)

Old_consume_number(ts, pos) ==
    LET t == Old_consume_token(ts, pos)
    IN IF t.kind # "ok" THEN t
       ELSE IF ts[pos].type = "NumberValue" THEN POk(NumberLiteral(ts[pos].value), t.pos)
       ELSE PPanic("Unexpected token of input", t.pos)

Old_consume_keyword(ts, pos) ==
    LET t == Old_consume_token(ts, pos)
    IN IF t.kind # "ok" THEN t
       ELSE CASE ts[pos].type = "BooleanValue" /\ ts[pos].flag ->
                    POk(MkNode("TrueKeyword", <<>>), t.pos)
              [] ts[pos].type = "BooleanValue" /\ ~ts[pos].flag ->
                    POk(MkNode("FalseKeyword", <<>>), t.pos)
              [] ts[pos].type = "NullValue" -> POk(MkNode("NullKeyword", <<>>), t.pos)
              [] OTHER -> PPanic("Unexpected token of input", t.pos)

RECURSIVE Old_parse_value(_, _)
RECURSIVE Old_ObjectLoop(_, _, _)
RECURSIVE Old_ArrayLoop(_, _, _)

\* SyntaxKind::PropertyAssignment(property_name, Box::new(value))
Old_PropertyAssignment(property_name, value) ==
    [MkNode("PropertyAssignment", <<value>>) EXCEPT !.text = property_name]

Old_consume_property_assignment(ts, pos) ==
    IF peek_token(ts, pos) # "StringValue"
    THEN PPanic("Unexpected token of input", pos)
    ELSE LET property_name == ts[pos].text
             t1 == Old_consume_token(ts, pos)
             t2 == Old_consume_token(ts, t1.pos)
         IN IF t2.kind # "ok" THEN t2
            ELSE LET r == Old_parse_value(ts, t2.pos)
                 IN IF r.kind = "ok"
                    THEN POk(Old_PropertyAssignment(property_name, r.node), r.pos)
                    ELSE r

\* the earlier consume_object with a comma asked for between two members
Old_ObjectLoop_NeedsComma(ts, pos, property_assignments) ==
    CASE peek_token(ts, pos) = "RBrace" ->
            POk(MkNode("ObjectLiteralExpression", property_assignments),
                Old_consume_token(ts, pos).pos)
      [] peek_token(ts, pos) = "StringValue" ->
            LET r == Old_consume_property_assignment(ts, pos)
            IN IF r.kind # "ok" THEN r
               ELSE IF peek_token(ts, r.pos) \notin {"Comma", "RBrace"}
               THEN PPanic("Unexpected token of input", r.pos)
               ELSE Old_ObjectLoop(ts, r.pos, Append(property_assignments, r.node))
      [] peek_token(ts, pos) = "Comma" ->
            Old_ObjectLoop(ts, Old_consume_token(ts, pos).pos, property_assignments)
      [] OTHER -> PPanic("Unexpected token of input", pos)

\* the loop of the earlier consume_object
Old_ObjectLoop(ts, pos, property_assignments) ==
    CASE peek_token(ts, pos) = "RBrace" ->
            POk(MkNode("ObjectLiteralExpression", property_assignments),
                Old_consume_token(ts, pos).pos)
      [] peek_token(ts, pos) = "StringValue" ->
            LET r == Old_consume_property_assignment(ts, pos)
            IN IF r.kind = "ok"
               THEN Old_ObjectLoop(ts, r.pos, Append(property_assignments, r.node))
               ELSE r
      [] peek_token(ts, pos) = "Comma" ->
            Old_ObjectLoop(ts, Old_consume_token(ts, pos).pos, property_assignments)
      [] OTHER -> PPanic("Unexpected token of input", pos)

Old_consume_object(ts, pos) ==
    LET t == Old_consume_token(ts, pos)
    IN IF t.kind # "ok" THEN t ELSE Old_ObjectLoop(ts, t.pos, <<>>)

\* the loop of the earlier consume_array
Old_ArrayLoop(ts, pos, elements) ==
    CASE peek_token(ts, pos) = "RBracket" ->
            POk(MkNode("ArrayLiteralExpression", elements),
                Old_consume_token(ts, pos).pos)
      [] peek_token(ts, pos) \in {"StringValue", "NumberValue", "BooleanValue",
                                  "NullValue", "LBrace", "LBracket"} ->
            LET r == Old_parse_value(ts, pos)
            IN IF r.kind = "ok"
               THEN Old_ArrayLoop(ts, r.pos, Append(elements, r.node))
               ELSE r
      [] peek_token(ts, pos) = "Comma" ->
            Old_ArrayLoop(ts, Old_consume_token(ts, pos).pos, elements)
      [] OTHER -> PPanic("Unexpected token of input", pos)

Old_consume_array(ts, pos) ==
    LET t == Old_consume_token(ts, pos)
    IN IF t.kind # "ok" THEN t ELSE Old_ArrayLoop(ts, t.pos, <<>>)

Old_parse_value(ts, pos) ==
    CASE peek_token(ts, pos) = "StringValue" -> Old_consume_string(ts, pos)
      [] peek_token(ts, pos) = "NumberValue" -> Old_consume_number(ts, pos)
      [] peek_token(ts, pos) \in {"BooleanValue", "NullValue"} ->
            Old_consume_keyword(ts, pos)
      [] peek_token(ts, pos) = "LBrace" -> Old_consume_object(ts, pos)
      [] peek_token(ts, pos) = "LBracket" -> Old_consume_array(ts, pos)
      [] OTHER -> PPanic("Unexpected token of input", pos)

Old_parse(ts) ==
    CASE peek_token(ts, 1) = "LBrace" -> Old_consume_object(ts, 1)
      [] peek_token(ts, 1) = "LBracket" -> Old_consume_array(ts, 1)
      [] OTHER -> PPanic("Unexpected the first token of input", 1)

\* -------------------------------------------------------------- formatter
\* struct FormatOptions / Default (print_width is read nowhere)

FormatOptions(spaces, use_tabs, trailing_commas) ==
    [spaces |-> spaces, use_tabs |-> use_tabs, trailing_commas |-> trailing_commas]

DefaultOptions == FormatOptions(4, FALSE, FALSE)

\* A formatter call returns its text and the indent field as it leaves it.
FOk(text, indent) == [kind |-> "ok", text |-> text, indent |-> indent, msg |-> ""]

FPanic(msg, indent) == [kind |-> "panic", text |-> <<>>, indent |-> indent, msg |-> msg]

up_indent(indent) == indent + 1

\* down_indent that leaves the counter as it is
down_indent_Keeps(indent) == indent

down_indent(indent) == indent - 1

\* the inner loop of indent_string: n spaces
RECURSIVE SpacesLoop(_)
SpacesLoop(n) == IF n <= 0 THEN <<>> ELSE <<" ">> \o SpacesLoop(n - 1)

\* indent_string with the tab pushed only when spaces is 0
RECURSIVE IndentLoop_SpacesFirst(_, _)
IndentLoop_SpacesFirst(n, options) ==
    IF n <= 0 THEN <<>>
    ELSE (IF options.use_tabs /\ options.spaces = 0 THEN <<"\t">>
          ELSE SpacesLoop(options.spaces))
           \o IndentLoop_SpacesFirst(n - 1, options)

\* the outer loop of indent_string: one unit per level
RECURSIVE IndentLoop(_, _)
IndentLoop(n, options) ==
    IF n <= 0 THEN <<>>
    ELSE (IF options.use_tabs THEN <<"\t">> ELSE SpacesLoop(options.spaces))
           \o IndentLoop(n - 1, options)

indent_string(indent, options) == IndentLoop(indent, options)

\* format_primitive writing a number the way {:?} does: 42.0 for 42
format_primitive_DebugNumber(node, indent) ==
    CASE node.kind = "StringLiteral" -> FOk(<<"\"">> \o node.text \o <<"\"">>, indent)
      [] node.kind = "NumberLiteral" ->
            FOk(f64_to_string(node.value)
                  \o (IF node.value.s = 0 THEN <<".", "0">> ELSE <<>>), indent)
      [] node.kind = "TrueKeyword" -> FOk(KwTrue, indent)
      [] node.kind = "FalseKeyword" -> FOk(KwFalse, indent)
      [] node.kind = "NullKeyword" -> FOk(KwNull, indent)
      [] OTHER -> FPanic("format_primitive called on non-primitive node", indent)

format_primitive(node, indent) ==
    CASE node.kind = "StringLiteral" -> FOk(<<"\"">> \o node.text \o <<"\"">>, indent)
      [] node.kind = "NumberLiteral" -> FOk(f64_to_string(node.value), indent)
      [] node.kind = "TrueKeyword" -> FOk(KwTrue, indent)
      [] node.kind = "FalseKeyword" -> FOk(KwFalse, indent)
      [] node.kind = "NullKeyword" -> FOk(KwNull, indent)
      [] OTHER -> FPanic("format_primitive called on non-primitive node", indent)

RECURSIVE format(_, _, _)

\* the loop of format_array with the comma pushed before the first child too
RECURSIVE ArrayFormatLoop_CommaFirst(_, _, _, _, _, _)
ArrayFormatLoop_CommaFirst(children, i, first, s, indent, options) ==
    IF i > Len(children) THEN FOk(s, indent)
    ELSE LET s1 == s \o <<",">> \o <<"\n">> \o indent_string(indent, options)
             r == format(children[i], indent, options)
         IN IF r.kind = "ok"
            THEN ArrayFormatLoop_CommaFirst(children, i + 1, FALSE, s1 \o r.text,
                                            r.indent, options)
            ELSE r

\* the for loop of format_array, from child i on: s is the text so far
RECURSIVE ArrayFormatLoop(_, _, _, _, _, _)
ArrayFormatLoop(children, i, first, s, indent, options) ==
    IF i > Len(children) THEN FOk(s, indent)
    ELSE LET s1 == (IF first THEN s ELSE s \o <<",">>)
                     \o <<"\n">> \o indent_string(indent, options)
             r == format(children[i], indent, options)
         IN IF r.kind = "ok"
            THEN ArrayFormatLoop(children, i + 1, FALSE, s1 \o r.text, r.indent, options)
            ELSE r

format_array(node, indent, options) ==
    LET r == ArrayFormatLoop(node.children, 1, TRUE, <<"[">>, up_indent(indent), options)
    IN IF r.kind = "ok"
       THEN FOk(r.text \o <<"\n">>
                  \o indent_string(down_indent(r.indent), options) \o <<"]">>,
                down_indent(r.indent))
       ELSE r

\* the for loop of format_object, from child i on: s is the text so far
RECURSIVE ObjectFormatLoop(_, _, _, _, _, _)
ObjectFormatLoop(children, i, first, s, indent, options) ==
    IF i > Len(children) THEN FOk(s, indent)
    ELSE LET s1 == (IF first THEN s ELSE s \o <<",">>)
                     \o <<"\n">> \o indent_string(indent, options)
             r == format(children[i], indent, options)
         IN IF r.kind = "ok"
            THEN ObjectFormatLoop(children, i + 1, FALSE, s1 \o r.text, r.indent, options)
            ELSE r

\* format_object writing the closing line before down_indent
format_object_LateDownIndent(node, indent, options) ==
    LET r == ObjectFormatLoop(node.children, 1, TRUE, <<"{">>, up_indent(indent), options)
    IN IF r.kind = "ok"
       THEN FOk(r.text \o <<"\n">> \o indent_string(r.indent, options) \o <<"}">>,
                down_indent(r.indent))
       ELSE r

format_object(node, indent, options) ==
    LET r == ObjectFormatLoop(node.children, 1, TRUE, <<"{">>, up_indent(indent), options)
    IN IF r.kind = "ok"
       THEN FOk(r.text \o <<"\n">>
                  \o indent_string(down_indent(r.indent), options) \o <<"}">>,
                down_indent(r.indent))
       ELSE r

\* the PropertyAssignment arm of format
format_property(node, indent, options) ==
    IF Len(node.children) < 1 THEN FPanic("index out of bounds", indent)
    ELSE LET k == format(node.children[1], indent, options)
         IN IF k.kind # "ok" THEN k
            ELSE IF Len(node.children) < 2 THEN FPanic("index out of bounds", k.indent)
            ELSE LET v == format(node.children[2], k.indent, options)
                 IN IF v.kind # "ok" THEN v
                    ELSE FOk(k.text \o <<":", " ">> \o v.text, v.indent)

format(node, indent, options) ==
    CASE node.kind = "ObjectLiteralExpression" -> format_object(node, indent, options)
      [] node.kind = "ArrayLiteralExpression" -> format_array(node, indent, options)
      [] node.kind \in {"StringLiteral", "NumberLiteral", "TrueKeyword",
                        "FalseKeyword", "NullKeyword"} -> format_primitive(node, indent)
      [] node.kind = "PropertyAssignment" -> format_property(node, indent, options)
      [] OTHER -> FPanic("format called on non-format node", indent)

\* ----------------------------------------------------------------- inputs
\* The documents the pipeline is run on: every root array and object of at
\* most MaxMembers members drawn from a fixed set of inner values, every
\* prefix of such a document (the truncated inputs), and every text of at
\* most MaxRawLen characters over RawAlphabet.

MaxMembers == 2

MaxRawLen == 2

Quote(text) == <<"\"">> \o text \o <<"\"">>

\* 01.50 is not the text to_string gives back for its value
LeafTexts == {Quote(<<"b">>), <<"0", "1", ".", "5", "0">>, KwNull, KwTrue}

NestedLeaf == <<"7">>

InnerTexts ==
    LeafTexts \cup
    { <<"[", "]">>, <<"{", "}">>,
      <<"[">> \o NestedLeaf \o <<"]">>,
      <<"{">> \o Quote(<<"a">>) \o <<":">> \o NestedLeaf \o <<"}">> }

MemberTexts ==
    {Quote(<<"a">>) \o <<":", " ">> \o v : v \in InnerTexts}
    \cup {Quote(<<"b">>) \o <<":">> \o KwFalse}

RECURSIVE SeqsUpTo(_, _)
SeqsUpTo(S, n) ==
    IF n = 0 THEN {<<>>}
    ELSE LET shorter == SeqsUpTo(S, n - 1)
         IN shorter \cup
            {Append(q, x) : q \in {r \in shorter : Len(r) = n - 1}, x \in S}

RECURSIVE Join(_, _)
Join(parts, sep) ==
    IF parts = <<>> THEN <<>>
    ELSE IF Len(parts) = 1 THEN parts[1]
    ELSE parts[1] \o sep \o Join(Tail(parts), sep)

RECURSIVE Flatten(_)
Flatten(parts) == IF parts = <<>> THEN <<>> ELSE parts[1] \o Flatten(Tail(parts))

Documents ==
    {<<"[">> \o Join(ms, <<",", " ">>) \o <<"]">> : ms \in SeqsUpTo(InnerTexts, MaxMembers)}
    \cup
    {<<"{">> \o Join(ms, <<",">>) \o <<"}">> : ms \in SeqsUpTo(MemberTexts, MaxMembers)}

Prefixes(S) == UNION {{SubSeq(d, 1, n) : n \in 0..Len(d)} : d \in S}

\* containers nested to a given depth around one number, every mix of
\* arrays and one-member objects
MaxDepth == 3

RECURSIVE Nested(_)
Nested(depth) ==
    IF depth = 0 THEN {NestedLeaf}
    ELSE {<<"[">> \o v \o <<"]">> : v \in Nested(depth - 1)}
         \cup {<<"{">> \o Quote(<<"a">>) \o <<":">> \o v \o <<"}">> : v \in Nested(depth - 1)}

NestedDocuments == UNION {Nested(depth) : depth \in 1..MaxDepth}

\* the inputs of the parser's and the formatter's tests and of the
\* documented scenarios
ExHelloWorld ==
    <<"{">> \o Quote(<<"h", "e", "l", "l", "o">>) \o <<":", " ">>
      \o Quote(<<"w", "o", "r", "l", "d">>) \o <<"}">>

ExOneTwoThree == <<"[", "1", ",", " ", "2", ",", " ", "3", "]">>

ExOneTwo == <<"[", "1", ",", " ", "2", "]">>

ExNestedObject ==
    <<"{">> \o Quote(<<"a">>) \o <<":", " ", "{">> \o Quote(<<"b">>)
      \o <<":", " ", "1", "}", "}">>

ExDuplicateKeys ==
    <<"{">> \o Quote(<<"a">>) \o <<":", "1", ",">> \o Quote(<<"a">>) \o <<":", "2", "}">>

ExBareScalar == <<"1", "2", "3">>

ExUnclosed == <<"{">> \o Quote(<<"a">>) \o <<":", " ", "1">>

ExampleDocuments ==
    {ExHelloWorld, ExOneTwoThree, ExOneTwo, ExNestedObject, ExDuplicateKeys}

\* the well-formed documents: each is one complete root object or array
WellFormed == Documents \cup NestedDocuments \cup ExampleDocuments

RawAlphabet == {"[", "]", "{", "}", ":", ",", "\"", "1", ".", "n", "-", " "}

RawTexts == SeqsUpTo(RawAlphabet, MaxRawLen)

Inputs == Prefixes(WellFormed) \cup RawTexts \cup {ExBareScalar, ExUnclosed}

\* A tree as the formatter's tests build it: the key of a PropertyAssignment
\* is a StringLiteral child.
RECURSIVE AsBuilt(_)
AsBuilt(node) ==
    [node EXCEPT !.kind = IF node.kind = "Identifier" THEN "StringLiteral" ELSE @,
                 !.children = [i \in 1..Len(node.children) |-> AsBuilt(node.children[i])]]

\* the trees handed to Formatter::new without a parser, one per well-formed
\* document
BuiltTrees == {AsBuilt(Parser_parse(Lexer_tokenize(d).tokens).node) : d \in WellFormed}

OptionSets ==
    {FormatOptions(sp, tabs, tc) : sp \in {0, 2, 4}, tabs \in BOOLEAN, tc \in BOOLEAN}

\* ---------------------------------------------------------- state machine
\* One run of the pipeline on input: Parser::new tokenizes it, Parser::parse
\* builds the tree, Formatter::new(tree, options).format renders it.  The
\* text written is then read back and run through the same pipeline with
\* the same options (pass 2), as a second run of the tool on its own output.

VARIABLES
    input,      \* the text given to Parser::new in this pass
    pass,       \* 1: the original input, 2: the output of pass 1
    pc,         \* "start", "tokenized", "parsed", "formatted", "failed"
    tokens,     \* Parser.token_stream as built by Parser::new
    tree,       \* the Node returned by Parser::parse
    options,    \* Formatter.options
    indent,     \* Formatter.indent
    output,     \* the String returned by Formatter::format
    outcome,    \* how the failed call ended: its stage, kind and message
    first,      \* pass 1's input, tokens, tree and output, kept for pass 2
    file,       \* the contents of the file the CLI was given
    char_pos,   \* Lexer.char_stream: the index of the next character
    token_pos,  \* Parser.token_stream: the index of the next token
    stack,      \* the consume_object / consume_array calls in progress
    old         \* what the Parser of the earlier revision returned

vars == <<input, pass, pc, tokens, tree, options, indent, output, outcome, first,
          file, char_pos, token_pos, stack, old>>

\* what a run of the whole pipeline in one call leaves alone: no file, and
\* the streams and the call stack are inside the calls
stepVars == <<file, char_pos, token_pos, stack, old>>

NoOld == [kind |-> "none", node |-> NoNode, pos |-> 1, msg |-> ""]

NoSteps ==
    /\ file = <<>>
    /\ char_pos = 1
    /\ token_pos = 1
    /\ stack = <<>>
    /\ old = NoOld

NoOutcome == [stage |-> "none", kind |-> "ok", msg |-> ""]

NoFirst == [input |-> <<>>, tokens |-> <<>>, tree |-> NoNode, output |-> <<>>]

\* Either a text is about to be parsed, or a Formatter is about to be made
\* for a tree built by hand.
Init ==
    /\ \/ /\ input \in Inputs
          /\ tree = NoNode
          /\ pc = "start"
       \/ /\ input = <<>>
          /\ tree \in BuiltTrees
          /\ pc = "parsed"
    /\ pass = 1
    /\ tokens = <<>>
    /\ options = DefaultOptions
    /\ indent = 0
    /\ output = <<>>
    /\ outcome = NoOutcome
    /\ first = NoFirst
    /\ NoSteps

\* Parser::new: Tokenizer::new(input).tokenize()
Tokenize ==
    /\ pc = "start"
    /\ LET r == Lexer_tokenize(input)
       IN IF r.kind = "ok"
          THEN /\ tokens' = r.tokens
               /\ pc' = "tokenized"
               /\ outcome' = outcome
          ELSE /\ tokens' = tokens
               /\ pc' = "failed"
               /\ outcome' = [stage |-> "tokenize", kind |-> r.kind, msg |-> r.msg]
    /\ UNCHANGED <<input, pass, tree, options, indent, output, first>>
    /\ UNCHANGED stepVars

\* Parser::parse
Parse ==
    /\ pc = "tokenized"
    /\ LET r == Parser_parse(tokens)
       IN IF r.kind = "ok"
          THEN /\ tree' = r.node
               /\ pc' = "parsed"
               /\ outcome' = outcome
          ELSE /\ tree' = tree
               /\ pc' = "failed"
               /\ outcome' = [stage |-> "parse", kind |-> r.kind, msg |-> r.msg]
    /\ UNCHANGED <<input, pass, tokens, options, indent, output, first>>
    /\ UNCHANGED stepVars

\* Formatter::new(tree, options) and Formatter::format(&tree); the second
\* pass is run with the options of the first
Format ==
    /\ pc = "parsed"
    /\ \E o \in (IF pass = 1 THEN OptionSets ELSE {options}) :
         LET r == format(tree, 0, o)
         IN /\ options' = o
            /\ indent' = r.indent
            /\ IF r.kind = "ok"
               THEN /\ output' = r.text
                    /\ pc' = "formatted"
                    /\ outcome' = outcome
               ELSE /\ output' = output
                    /\ pc' = "failed"
                    /\ outcome' = [stage |-> "format", kind |-> r.kind, msg |-> r.msg]
    /\ UNCHANGED <<input, pass, tokens, tree, first>>
    /\ UNCHANGED stepVars

\* the formatted text is given to a new Parser and Formatter
Reformat ==
    /\ pc = "formatted"
    /\ pass = 1
    /\ first' = [input |-> input, tokens |-> tokens, tree |-> tree, output |-> output]
    /\ input' = output
    /\ pass' = 2
    /\ pc' = "start"
    /\ tokens' = <<>>
    /\ tree' = NoNode
    /\ indent' = 0
    /\ output' = <<>>
    /\ UNCHANGED <<options, outcome>>
    /\ UNCHANGED stepVars

Next == Tokenize \/ Parse \/ Format \/ Reformat

Spec == Init /\ [][Next]_vars

\* ------------------------------------------------- runs on two layouts
\* The tool run on one document written with different whitespace between
\* its lexemes: a first run on one layout, then a run on another layout of
\* the same lexemes (or on the same text again) with the same options.

\* nothing, or one of each whitespace character
LayoutGaps == {<<>>, <<"\r", "\n", "\t", " ">>}

\* documents as the sequence of their lexemes
LayoutDocuments ==
    { << <<"[">>, <<"1">>, <<",">>, Quote(<<"b", " ", "c">>), <<"]">> >>,
      << <<"{">>, Quote(<<"a">>), <<":">>, <<"7">>, <<"}">> >>,
      << <<"[">>, <<"]">> >> }

\* every text that puts a gap, or none, before each lexeme; the gap before
\* the first lexeme also ends the text
Layouts(lexemes) ==
    {Flatten([i \in 1..Len(lexemes) |-> g[i] \o lexemes[i]]) \o g[1]
        : g \in [1..Len(lexemes) -> LayoutGaps]}

LayoutInputs == UNION {Layouts(l) : l \in LayoutDocuments}

InitLayout ==
    /\ input \in LayoutInputs
    /\ tree = NoNode
    /\ pc = "start"
    /\ pass = 1
    /\ tokens = <<>>
    /\ options = DefaultOptions
    /\ indent = 0
    /\ output = <<>>
    /\ outcome = NoOutcome
    /\ first = NoFirst
    /\ NoSteps

\* the first run has ended; the tool is run with the same options on a
\* layout of the same lexemes
Relayout ==
    /\ pass = 1
    /\ pc \in {"formatted", "failed"}
    /\ \E l \in LayoutDocuments :
         /\ input \in Layouts(l)
         /\ input' \in Layouts(l)
    /\ first' = [input |-> input, tokens |-> tokens, tree |-> tree,
                 output |-> output, outcome |-> outcome]
    /\ pass' = 2
    /\ pc' = "start"
    /\ tokens' = <<>>
    /\ tree' = NoNode
    /\ indent' = 0
    /\ output' = <<>>
    /\ outcome' = NoOutcome
    /\ UNCHANGED options
    /\ UNCHANGED stepVars

NextLayout == Tokenize \/ Parse \/ Format \/ Relayout

SpecLayout == InitLayout /\ [][NextLayout]_vars

\* ------------------------------------------------- runs on lexical cases
\* The tool run on texts put together from at most MaxPieces pieces: the
\* delimiters, strings with a backslash before the closing quote, digit and
\* dot runs, keywords and near-keywords, and characters no token starts
\* with.

MaxPieces == 3

ScanPieces ==
    { <<"[">>, <<"]">>, <<",">>, <<" ">>,
      Quote(<<"a", "\\">>), <<"\"">>, <<"\\">>,
      <<"1">>, <<"1", ".">>, <<"1", ".", "2", ".", "3">>, <<".">>, <<"-">>,
      KwTrue, KwFalse, KwNull, <<"T", "r", "u", "e">>, <<"n", "u", "l">>,
      <<"t", "r", "u", "e", "1">> }

ScanInputs == {Flatten(ps) : ps \in SeqsUpTo(ScanPieces, MaxPieces)}

InitScan ==
    /\ input \in ScanInputs
    /\ tree = NoNode
    /\ pc = "start"
    /\ pass = 1
    /\ tokens = <<>>
    /\ options = DefaultOptions
    /\ indent = 0
    /\ output = <<>>
    /\ outcome = NoOutcome
    /\ first = NoFirst
    /\ NoSteps

SpecScan == InitScan /\ [][Next]_vars

\* --------------------------------------------- one Formatter, two calls
\* The formatter's tests call the same Formatter twice on the same node:
\* the second call starts from the indent the first one left.

FormatAgain ==
    /\ pc = "formatted"
    /\ pass = 1
    /\ first' = [input |-> input, tokens |-> tokens, tree |-> tree, output |-> output]
    /\ LET r == format(tree, indent, options)
       IN /\ indent' = r.indent
          /\ IF r.kind = "ok"
             THEN /\ output' = r.text
                  /\ pc' = "formatted again"
                  /\ outcome' = outcome
             ELSE /\ output' = output
                  /\ pc' = "failed"
                  /\ outcome' = [stage |-> "format", kind |-> r.kind, msg |-> r.msg]
    /\ UNCHANGED <<input, pass, tokens, tree, options>>
    /\ UNCHANGED stepVars

NextAgain == Tokenize \/ Parse \/ Format \/ FormatAgain

SpecAgain == Init /\ [][NextAgain]_vars

\* ---------------------------------------------------------------- the CLI
\* main: the file is read into a buffer, the buffer is tokenized, parsed
\* and formatted, then the file is created anew (which empties it) and the
\* text is written.  Every failure is a panic that ends the process; an
\* I/O call may fail whatever the contents.

InitCli ==
    /\ file \in Inputs
    /\ input = <<>>
    /\ tree = NoNode
    /\ pc = "main"
    /\ pass = 1
    /\ tokens = <<>>
    /\ options = DefaultOptions
    /\ indent = 0
    /\ output = <<>>
    /\ outcome = NoOutcome
    /\ first = NoFirst
    /\ char_pos = 1
    /\ token_pos = 1
    /\ stack = <<>>
    /\ old = NoOld

\* File::open and read_to_string
ReadFile ==
    /\ pc = "main"
    /\ \/ /\ input' = file
          /\ pc' = "start"
          /\ outcome' = outcome
       \/ /\ input' = input
          /\ pc' = "failed"
          /\ outcome' = [stage |-> "read", kind |-> "panic", msg |-> "failed to open file"]
    /\ UNCHANGED <<pass, tokens, tree, options, indent, output, first>>
    /\ UNCHANGED stepVars

\* File::create before the text has been formatted
CreateFile_BeforeFormat ==
    /\ pc = "start"
    /\ file # <<>>
    /\ file' = <<>>
    /\ UNCHANGED <<input, pass, pc, tokens, tree, options, indent, output, outcome,
                   first, char_pos, token_pos, stack, old>>

\* File::create: the file is emptied, or the call fails and it is not touched
CreateFile ==
    /\ pc = "formatted"
    /\ \/ /\ file' = <<>>
          /\ pc' = "created"
          /\ outcome' = outcome
       \/ /\ file' = file
          /\ pc' = "failed"
          /\ outcome' = [stage |-> "create", kind |-> "panic",
                         msg |-> "failed to create file"]
    /\ UNCHANGED <<input, pass, tokens, tree, options, indent, output, first,
                   char_pos, token_pos, stack, old>>

\* write_all: the whole text is written, or the call fails after a part of it
WriteFile ==
    /\ pc = "created"
    /\ \/ /\ file' = output
          /\ pc' = "written"
          /\ outcome' = outcome
       \/ /\ \E n \in 0..(Len(output) - 1) : file' = SubSeq(output, 1, n)
          /\ pc' = "failed"
          /\ outcome' = [stage |-> "write", kind |-> "panic",
                         msg |-> "failed to write file"]
    /\ UNCHANGED <<input, pass, tokens, tree, options, indent, output, first,
                   char_pos, token_pos, stack, old>>

NextCli == ReadFile \/ Tokenize \/ Parse \/ Format \/ CreateFile \/ WriteFile

SpecCli == InitCli /\ [][NextCli]_vars

\* ------------------------------------------------- parsing token by token
\* Texts made of lexemes with one space between them, so that what parse
\* does with every short sequence of tokens is visited, and families of
\* longer texts around one member, one separator or one root.

MaxTokens == 4

TokenPieces ==
    {<<"{">>, <<"}">>, <<"[">>, <<"]">>, <<":">>, <<",">>, Quote(<<"a">>), <<"1">>}

Spaced(pieces) == Join(pieces, <<" ">>)

TokenInputs == {Spaced(ps) : ps \in SeqsUpTo(TokenPieces, MaxTokens)}

One == NumberLiteral([m |-> 1, s |-> 0])

Two == NumberLiteral([m |-> 2, s |-> 0])

Property(key, value) == MkNode("PropertyAssignment", <<Identifier(key), value>>)

\* member values as lexemes, each with the node consume_value builds for it
MemberValues ==
    { [pieces |-> << <<"1">> >>, node |-> One],
      [pieces |-> << Quote(<<"b">>) >>, node |-> StringLiteral(<<"b">>)],
      [pieces |-> << KwTrue >>, node |-> MkNode("TrueKeyword", <<>>)],
      [pieces |-> << <<"[">>, <<"1">>, <<"]">> >>,
       node |-> MkNode("ArrayLiteralExpression", <<One>>)],
      [pieces |-> << <<"{">>, <<"}">> >>,
       node |-> MkNode("ObjectLiteralExpression", <<>>)],
      [pieces |-> << <<"{">>, Quote(<<"b">>), <<":">>, <<"1">>, <<"}">> >>,
       node |-> MkNode("ObjectLiteralExpression", <<Property(<<"b">>, One)>>)] }

\* what stands between the key and the value: nothing, or one token
ColonGaps == {<<>>} \cup {<<p>> : p \in TokenPieces \cup {KwTrue, KwNull}}

\* { "a" gap value } and { "a" gap value , "c" : 2 }
ColonDoc(gap, v, more) ==
    Spaced(<< <<"{">>, Quote(<<"a">>) >> \o gap \o v.pieces
           \o (IF more THEN << <<",">>, Quote(<<"c">>), <<":">>, <<"2">> >> ELSE <<>>)
           \o << <<"}">> >>)

ColonTree(v, more) ==
    MkNode("ObjectLiteralExpression",
           <<Property(<<"a">>, v.node)>>
             \o (IF more THEN <<Property(<<"c">>, Two)>> ELSE <<>>))

ColonInputs == {ColonDoc(g, v, m) : g \in ColonGaps, v \in MemberValues, m \in BOOLEAN}

\* the most commas in a row before, between and after two members
MaxCommas == 2

Commas(n) == [i \in 1..n |-> <<",">>]

\* [ ,.. 1 ,.. 2 ,.. ]
CommaArray(g) ==
    Spaced(<< <<"[">> >> \o Commas(g[1]) \o << <<"1">> >> \o Commas(g[2])
           \o << <<"2">> >> \o Commas(g[3]) \o << <<"]">> >>)

\* { ,.. "a" : 1 ,.. "c" : 2 ,.. }
CommaObject(g) ==
    Spaced(<< <<"{">> >> \o Commas(g[1]) \o << Quote(<<"a">>), <<":">>, <<"1">> >>
           \o Commas(g[2]) \o << Quote(<<"c">>), <<":">>, <<"2">> >>
           \o Commas(g[3]) \o << <<"}">> >>)

CommaGaps == [1..3 -> 0..MaxCommas]

ExCommasEverywhere == <<"[", ",", "1", ",", ",", "2", ",", "]">>

ExNoComma == <<"[", "1", " ", "2", "]">>

CommaInputs ==
    {CommaArray(g) : g \in CommaGaps} \cup {CommaObject(g) : g \in CommaGaps}
      \cup {ExCommasEverywhere, ExNoComma, ExOneTwo}

\* the most tokens after the root's closing delimiter
MaxTrail == 2

TrailRoots == {v \in MemberValues : v.pieces[1] \in {<<"[">>, <<"{">>}}

TrailDoc(root, trail) == Spaced(root.pieces \o trail)

ExTwoRoots == <<"[", "1", "]", " ", "[", "2", "]">>

TrailInputs ==
    {TrailDoc(r, t) : r \in TrailRoots, t \in SeqsUpTo(TokenPieces, MaxTrail)}
      \cup {ExTwoRoots}

\* what the loop of consume_array may have consumed when it meets a closer
ArrayBodies ==
    { <<>>, << <<"1">> >>, << <<"1">>, <<",">>, Quote(<<"a">>) >>,
      << <<"[">>, <<"]">> >>, << <<"{">>, <<"}">>, <<",">> >> }

\* what the loop of consume_object may have consumed when it meets a closer
ObjectBodies ==
    { <<>>, << Quote(<<"a">>), <<":">>, <<"1">> >>,
      << Quote(<<"a">>), <<":">>, <<"[">>, <<"]">>, <<",">> >> }

\* the lookaheads that do not close an array (none: End), and an object
ArrayWrongClosers == { << <<"}">> >>, << <<":">> >>, <<>> }

ObjectWrongClosers == { << <<"]">> >> }

WrongCloserPieces ==
    {<< <<"[">> >> \o b \o c : b \in ArrayBodies, c \in ArrayWrongClosers}
      \cup {<< <<"{">> >> \o b \o c : b \in ObjectBodies, c \in ObjectWrongClosers}

\* a composite closed by the wrong token: the root, the element of an array
\* or the value of a member
WrongCloserDocs ==
    {Spaced(d) : d \in WrongCloserPieces}
      \cup {Spaced(<< <<"[">> >> \o d \o << <<"]">> >>) : d \in WrongCloserPieces}
      \cup {Spaced(<< <<"{">>, Quote(<<"a">>), <<":">> >> \o d \o << <<"}">> >>) :
               d \in WrongCloserPieces}

ExBraceClosesArray == <<"[", "1", "}">>

ExBracketClosesObject == <<"{">> \o Quote(<<"a">>) \o <<":", " ", "1", "]">>

CloserInputs == WrongCloserDocs \cup {ExBraceClosesArray, ExBracketClosesObject}

ParseInputs ==
    TokenInputs \cup ColonInputs \cup CommaInputs \cup TrailInputs \cup CloserInputs

InitParse ==
    /\ input \in ParseInputs
    /\ tree = NoNode
    /\ pc = "start"
    /\ pass = 1
    /\ tokens = <<>>
    /\ options = DefaultOptions
    /\ indent = 0
    /\ output = <<>>
    /\ outcome = NoOutcome
    /\ first = NoFirst
    /\ NoSteps

NextParse == Tokenize \/ Parse

SpecParse == InitParse /\ [][NextParse]_vars

\* ------------------------------------------------ calling one production
\* A Parser is made for a text, its stream is advanced by next_token any
\* number of times, and then consume_value or consume_property_assignment
\* is called once: token_pos is where the call leaves the stream.

MaxCallTokens == 3

CallInputs ==
    {Spaced(ps) : ps \in SeqsUpTo(TokenPieces \cup {KwTrue, KwNull}, MaxCallTokens)}

InitCall ==
    /\ input \in CallInputs
    /\ tree = NoNode
    /\ pc = "start"
    /\ pass = 1
    /\ tokens = <<>>
    /\ options = DefaultOptions
    /\ indent = 0
    /\ output = <<>>
    /\ outcome = NoOutcome
    /\ first = NoFirst
    /\ NoSteps

\* Parser::next_token
SkipToken ==
    /\ pc = "tokenized"
    /\ token_pos <= Len(tokens)
    /\ token_pos' = next_token(tokens, token_pos)
    /\ UNCHANGED <<input, pass, pc, tokens, tree, options, indent, output, outcome,
                   first, file, char_pos, stack, old>>

Called(production, r) ==
    /\ pc' = "called"
    /\ token_pos' = r.pos
    /\ tree' = r.node
    /\ outcome' = [stage |-> production, kind |-> r.kind, msg |-> r.msg]
    /\ UNCHANGED <<input, pass, tokens, options, indent, output, first,
                   file, char_pos, stack, old>>

CallValue ==
    /\ pc = "tokenized"
    /\ Called("consume_value", consume_value(tokens, token_pos))

CallPropertyAssignment ==
    /\ pc = "tokenized"
    /\ Called("consume_property_assignment",
              consume_property_assignment(tokens, token_pos))

NextCall == Tokenize \/ SkipToken \/ CallValue \/ CallPropertyAssignment

SpecCall == InitCall /\ [][NextCall]_vars

\* ------------------------------------------------------- loop by loop
\* The same pipeline taken one loop iteration at a time: a step is one
\* next_token call of tokenize's loop, the choice of the root production, or
\* one iteration of the loop of the consume_object / consume_array call on
\* top of the call stack.  A scalar value is consumed within the iteration
\* that meets it; a nested object or array becomes a new call, whose
\* iterations are steps of their own, and its node reaches the caller when
\* it returns.

StepInputs ==
    Prefixes(ExampleDocuments \cup NestedDocuments) \cup RawTexts
      \cup ColonInputs \cup CommaInputs \cup TrailInputs \cup CloserInputs

InitSteps ==
    /\ input \in StepInputs
    /\ tree = NoNode
    /\ pc = "start"
    /\ pass = 1
    /\ tokens = <<>>
    /\ options = DefaultOptions
    /\ indent = 0
    /\ output = <<>>
    /\ outcome = NoOutcome
    /\ first = NoFirst
    /\ NoSteps

\* one iteration of the loop of tokenize
LexStep ==
    /\ pc = "start"
    /\ LET r == Lexer_next_token(input, char_pos)
       IN /\ char_pos' = r.pos
          /\ IF r.kind = "panic"
             THEN /\ tokens' = tokens
                  /\ pc' = "failed"
                  /\ outcome' = [stage |-> "tokenize", kind |-> "panic", msg |-> r.msg]
             ELSE /\ tokens' = Append(tokens, r.token)
                  /\ pc' = IF r.token = Tok("End") THEN "tokenized" ELSE pc
                  /\ outcome' = outcome
    /\ UNCHANGED <<input, pass, tree, options, indent, output, first,
                   file, token_pos, stack, old>>

\* a consume_object or consume_array call in progress: the members pushed
\* so far and, when consume_property_assignment made the call, its key
Frame(kind, key, keyed) == [kind |-> kind, items |-> <<>>, key |-> key, keyed |-> keyed]

\* an Err reaches Parser::parse, which panics
StepFails(msg) ==
    /\ pc' = "failed"
    /\ outcome' = [stage |-> "parse", kind |-> "panic", msg |-> msg]
    /\ UNCHANGED <<tree, stack, token_pos>>

\* Parser::parse: the root production is chosen and consumes its opener
ParseStart ==
    /\ pc = "tokenized"
    /\ IF peek_token(tokens, 1) \in {"LBrace", "LBracket"}
       THEN /\ stack' = <<Frame(peek_token(tokens, 1), <<>>, FALSE)>>
            /\ token_pos' = next_token(tokens, 1)
            /\ pc' = "parsing"
            /\ UNCHANGED <<tree, outcome>>
       ELSE StepFails("Unexpected the first token of input")
    /\ UNCHANGED <<input, pass, tokens, options, indent, output, first, file, char_pos,
                   old>>

\* the member a call hands to its caller: a value, or the PropertyAssignment
\* that consume_property_assignment wraps around it
Member(node, key, keyed) == IF keyed THEN Property(key, node) ELSE node

\* the closer is consumed and the call on top of the stack returns its node
ReturnNode(kind) ==
    LET node == MkNode(kind, stack[1].items)
        callers == Tail(stack)
    IN /\ token_pos' = next_token(tokens, token_pos)
       /\ IF callers = <<>>
          THEN /\ tree' = node
               /\ pc' = "parsed"
               /\ stack' = <<>>
          ELSE /\ tree' = tree
               /\ pc' = pc
               /\ stack' = <<[callers[1] EXCEPT
                                !.items = Append(@, Member(node, stack[1].key,
                                                           stack[1].keyed))]>>
                             \o Tail(callers)
       /\ outcome' = outcome

\* consume_value at position p, for the call on top of the stack
ValueAt(p, key, keyed) ==
    IF peek_token(tokens, p) \in {"LBrace", "LBracket"}
    THEN /\ stack' = <<Frame(peek_token(tokens, p), key, keyed)>> \o stack
         /\ token_pos' = next_token(tokens, p)
         /\ UNCHANGED <<tree, pc, outcome>>
    ELSE LET r == consume_value(tokens, p)
         IN IF r.kind = "ok"
            THEN /\ stack' = <<[stack[1] EXCEPT
                                 !.items = Append(@, Member(r.node, key, keyed))]>>
                              \o Tail(stack)
                 /\ token_pos' = r.pos
                 /\ UNCHANGED <<tree, pc, outcome>>
            ELSE /\ pc' = "failed"
                 /\ outcome' = [stage |-> "parse", kind |-> "panic", msg |-> r.msg]
                 /\ token_pos' = r.pos
                 /\ UNCHANGED <<tree, stack>>

\* the Comma arm that leaves the comma in the stream
SkipComma_Stays ==
    /\ token_pos' = token_pos
    /\ UNCHANGED <<tree, pc, outcome, stack>>

\* the Comma arm of both loops
SkipComma ==
    /\ token_pos' = next_token(tokens, token_pos)
    /\ UNCHANGED <<tree, pc, outcome, stack>>

\* one iteration of the loop of consume_object
ObjectStep ==
    /\ pc = "parsing"
    /\ stack[1].kind = "LBrace"
    /\ IF peek_token(tokens, token_pos) = "RBrace"
       THEN ReturnNode("ObjectLiteralExpression")
       ELSE IF peek_token(tokens, token_pos) = "StringValue"
       THEN ValueAt(next_token(tokens, next_token(tokens, token_pos)),
                    tokens[token_pos].text, TRUE)
       ELSE IF peek_token(tokens, token_pos) = "Comma"
       THEN SkipComma
       ELSE StepFails("Unexpected token of input")
    /\ UNCHANGED <<input, pass, tokens, options, indent, output, first, file, char_pos,
                   old>>

\* one iteration of the loop of consume_array
ArrayStep ==
    /\ pc = "parsing"
    /\ stack[1].kind = "LBracket"
    /\ IF peek_token(tokens, token_pos) = "RBracket"
       THEN ReturnNode("ArrayLiteralExpression")
       ELSE IF peek_token(tokens, token_pos) \in
                 {"StringValue", "NumberValue", "BooleanValue", "NullValue",
                  "LBrace", "LBracket"}
       THEN ValueAt(token_pos, <<>>, FALSE)
       ELSE IF peek_token(tokens, token_pos) = "Comma"
       THEN SkipComma
       ELSE StepFails("Unexpected token of input")
    /\ UNCHANGED <<input, pass, tokens, options, indent, output, first, file, char_pos,
                   old>>

NextSteps == LexStep \/ ParseStart \/ ObjectStep \/ ArrayStep

\* the program runs on one thread until it returns or panics
SpecSteps == InitSteps /\ [][NextSteps]_vars /\ WF_vars(NextSteps)

\* --------------------------------------------------- the two revisions
\* The tokens of one text are given to the Parser of each revision.

RevisionInputs == ParseInputs \cup Prefixes(ExampleDocuments \cup NestedDocuments)

InitRevisions ==
    /\ input \in RevisionInputs
    /\ tree = NoNode
    /\ pc = "start"
    /\ pass = 1
    /\ tokens = <<>>
    /\ options = DefaultOptions
    /\ indent = 0
    /\ output = <<>>
    /\ outcome = NoOutcome
    /\ first = NoFirst
    /\ NoSteps

\* Parser::parse of src/src/node.rs on the same tokens
ParseOld ==
    /\ tokens # <<>>
    /\ pc # "start"
    /\ old = NoOld
    /\ old' = Old_parse(tokens)
    /\ UNCHANGED <<input, pass, pc, tokens, tree, options, indent, output, outcome,
                   first, file, char_pos, token_pos, stack>>

NextRevisions == Tokenize \/ Parse \/ ParseOld

SpecRevisions == InitRevisions /\ [][NextRevisions]_vars

\* ================================================================ claims

IsComposite(node) == node.kind \in {"ObjectLiteralExpression", "ArrayLiteralExpression"}

\* every object and array of a tree, with the number of composites around it
RECURSIVE Composites(_, _)
Composites(node, depth) ==
    (IF IsComposite(node) THEN {[node |-> node, depth |-> depth]} ELSE {})
    \cup UNION {Composites(node.children[i], IF IsComposite(node) THEN depth + 1 ELSE depth)
                  : i \in 1..Len(node.children)}

OpenOf(node) == IF node.kind = "ObjectLiteralExpression" THEN "{" ELSE "["

CloseOf(node) == IF node.kind = "ObjectLiteralExpression" THEN "}" ELSE "]"

\* open, then per member: newline, the member's indent, the member's text
\* and a comma unless it is the last; then newline, the composite's own
\* indent, close
DelimitedMembers(node, depth, o) ==
    LET n == Len(node.children)
    IN <<OpenOf(node)>>
         \o Flatten([i \in 1..n |->
              <<"\n">> \o indent_string(depth + 1, o)
                \o format(node.children[i], depth + 1, o).text
                \o (IF i < n THEN <<",">> ELSE <<>>)])
         \o <<"\n">> \o indent_string(depth, o) \o <<CloseOf(node)>>

OneTwoThreeFormatted ==
    <<"[", "\n", " ", " ", " ", " ", "1", ",",
           "\n", " ", " ", " ", " ", "2", ",",
           "\n", " ", " ", " ", " ", "3", "\n", "]">>

FromText == IF pass = 1 THEN input # <<>> \/ tokens # <<>> ELSE first.tokens # <<>>

\* the objects and arrays of a tree that have at least one member
NonEmptyComposites(node) == {c \in Composites(node, 0) : Len(c.node.children) > 0}

\* C2: the text formatted with trailing_commas=true is the text formatted
\* with trailing_commas=false plus one comma per object or array that has a
\* member (and none for the empty ones).
C2_TrailingCommaPerNonEmptyComposite ==
    (FromText /\ pc = "formatted" /\ options.trailing_commas) =>
        LET plain == format(tree, 0, [options EXCEPT !.trailing_commas = FALSE]).text
        IN /\ Len(output) = Len(plain) + Cardinality(NonEmptyComposites(tree))
           /\ SelectSeq(output, LAMBDA c : c # ",") = SelectSeq(plain, LAMBDA c : c # ",")

\* C3: every input the parser accepts is formatted, formatting the output
\* again with the same options succeeds, and gives the same text.
C3_Idempotent ==
    FromText =>
        /\ ~(pass = 1 /\ pc = "failed" /\ outcome.stage = "format")
        /\ ~(pass = 2 /\ pc = "failed")
        /\ (pass = 2 /\ pc = "formatted") => output = first.output

\* C4: for every input the parser accepts and every option set, the
\* formatted text parses, to the tree the input parsed to.
C4_StructuralFidelity ==
    FromText =>
        /\ ~(pass = 1 /\ pc = "failed" /\ outcome.stage = "format")
        /\ ~(pass = 2 /\ pc = "failed" /\ outcome.stage \in {"tokenize", "parse"})
        /\ (pass = 2 /\ pc \in {"parsed", "formatted"}) => tree = first.tree

\* C5: Formatter.format never fails on a tree Parser.parse returned.
C5_FormatNeverFailsOnParsedTree ==
    (tokens # <<>> /\ pc = "failed") => outcome.stage # "format"

\* C6: after Parser.parse, there is a tree exactly when the first token is
\* LBrace or LBracket and the production succeeded, its root is then the
\* object or the array that token opens; on any other first token parse has
\* failed and there is neither tree nor output.
C6_RootIsObjectOrArray ==
    (tokens # <<>> /\ pc # "tokenized") =>
        /\ tree # NoNode =>
             \/ tokens[1].type = "LBrace" /\ tree.kind = "ObjectLiteralExpression"
             \/ tokens[1].type = "LBracket" /\ tree.kind = "ArrayLiteralExpression"
        /\ tokens[1].type \notin {"LBrace", "LBracket"} =>
             /\ pc = "failed"
             /\ outcome.stage = "parse"
             /\ tree = NoNode
             /\ output = <<>>

\* the bare scalar 123 has been refused by parse
C6_Witness ==
    /\ input = ExBareScalar
    /\ pc = "failed"
    /\ outcome.stage = "parse"
    /\ tokens[1].type = "NumberValue"

\* the text has a double quote that no later double quote closes
OddQuotes(text) == CountOf("\"", text) % 2 = 1

\* the well-formed documents cut short: at least one character, not all
Truncated == UNION {{SubSeq(d, 1, n) : n \in 1..(Len(d) - 1)} : d \in WellFormed}

\* C7: a text that ends inside a string literal is refused by tokenize, which
\* returns no tokens; a document cut before its root is closed is refused by
\* tokenize or by parse, which returns no tree, and nothing is formatted.
C7_UnterminatedFails ==
    /\ (OddQuotes(input) /\ pc # "start") =>
          /\ pc = "failed"
          /\ outcome.stage = "tokenize"
          /\ tokens = <<>>
    /\ (pass = 1 /\ input \in Truncated /\ pc \notin {"start", "tokenized"}) =>
          /\ pc = "failed"
          /\ outcome.stage \in {"tokenize", "parse"}
          /\ tree = NoNode
          /\ output = <<>>

\* {"a": 1 has reached End with its object open and has been refused
C7_Witness ==
    /\ input = ExUnclosed
    /\ pc = "failed"
    /\ outcome.stage = "parse"
    /\ tokens[Len(tokens)].type = "End"

\* C8 as stated: a failed tokenize, parse or format call has handed its
\* caller an error value.
C8_FailureIsErrorValue == pc = "failed" => outcome.kind = "err"

\* C8 as amended: a failed tokenize, parse or format call has panicked; the
\* productions under Parser.parse do return an Err value, and parse panics
\* with its message.
C8_FailureIsPanic ==
    pc = "failed" =>
        /\ outcome.kind = "panic"
        /\ outcome.stage = "parse" =>
             /\ ParseResult(tokens).kind = "err"
             /\ outcome.msg = ParseResult(tokens).msg

\* a production has returned Err and parse has failed
C8_Witness ==
    /\ pc = "failed"
    /\ outcome.stage = "parse"
    /\ outcome.msg = "Unexpected token of input"

ScalarTypes == {"StringValue", "NumberValue", "BooleanValue", "NullValue"}

\* the tokens a tree was built from, separators left out: keys and values in
\* order, each object and array between its delimiters
RECURSIVE TreeTokens(_)
TreeTokens(node) ==
    LET inner == Flatten([i \in 1..Len(node.children) |-> TreeTokens(node.children[i])])
    IN CASE node.kind = "ObjectLiteralExpression" ->
              <<Tok("LBrace")>> \o inner \o <<Tok("RBrace")>>
         [] node.kind = "ArrayLiteralExpression" ->
              <<Tok("LBracket")>> \o inner \o <<Tok("RBracket")>>
         [] node.kind \in {"StringLiteral", "Identifier"} -> <<StringValue(node.text)>>
         [] node.kind = "NumberLiteral" -> <<NumberValue(node.value)>>
         [] node.kind = "TrueKeyword" -> <<BooleanValue(TRUE)>>
         [] node.kind = "FalseKeyword" -> <<BooleanValue(FALSE)>>
         [] node.kind = "NullKeyword" -> <<Tok("NullValue")>>
         [] OTHER -> inner

WithoutSeparators(ts) == SelectSeq(ts, LAMBDA t : t.type \notin {"Comma", "Colon", "End"})

\* C9: for a well-formed document, the tree holds the keys, values and
\* containers in the order of the input, the document is formatted, and the
\* formatted text holds them in that order too.
C9_OrderPreserved ==
    (pass = 1 /\ input \in WellFormed) =>
        /\ pc # "failed"
        /\ pc \in {"parsed", "formatted"} => TreeTokens(tree) = WithoutSeparators(tokens)
        /\ pc = "formatted" =>
             WithoutSeparators(Lexer_tokenize(output).tokens) = WithoutSeparators(tokens)

\* C10: an object or array without members is rendered as its opening
\* delimiter, a newline, the indent of its own depth and its closing
\* delimiter; at the root under the default options that is "{\n}" or "[\n]".
C10_EmptyComposite ==
    pc = "formatted" =>
        /\ \A c \in Composites(tree, 0) :
             Len(c.node.children) = 0 =>
               format(c.node, c.depth, options).text
                 = <<OpenOf(c.node), "\n">> \o indent_string(c.depth, options)
                     \o <<CloseOf(c.node)>>
        /\ (Len(tree.children) = 0 /\ options = DefaultOptions) =>
             output = <<OpenOf(tree), "\n", CloseOf(tree)>>

\* {} has been rendered under the default options, from the text
C10_Witness ==
    /\ pc = "formatted"
    /\ pass = 1
    /\ input = <<"{", "}">>
    /\ options = DefaultOptions
    /\ output = <<"{", "\n", "}">>

\* the indent unit the options ask for: one tab, or `spaces` spaces
IndentUnit(o) == IF o.use_tabs THEN <<"\t">> ELSE [i \in 1..o.spaces |-> " "]

\* d copies of a unit, one after the other
Copies(unit, d) == [i \in 1..(d * Len(unit)) |-> unit[((i - 1) % Len(unit)) + 1]]

StartsWith(text, prefix) ==
    Len(prefix) <= Len(text) /\ SubSeq(text, 1, Len(prefix)) = prefix

EndsWith(text, suffix) ==
    Len(suffix) <= Len(text)
    /\ SubSeq(text, Len(text) - Len(suffix) + 1, Len(text)) = suffix

\* C11: in every rendered text, the closing line of an object or array at
\* depth d is indented by exactly d copies of the indent unit and its first
\* member line by d + 1 copies, where the unit is one tab when use_tabs is
\* set (whatever spaces is) and `spaces` spaces otherwise; indent_string
\* gives those copies at every depth of the tree, and four spaces per level
\* under the default options.
C11_IndentIsDepthTimesUnit ==
    pc = "formatted" =>
        /\ \A c \in Composites(tree, 0) :
             LET text == format(c.node, c.depth, options).text
                 unit == IndentUnit(options)
             IN /\ indent_string(c.depth, options) = Copies(unit, c.depth)
                /\ indent_string(c.depth + 1, options) = Copies(unit, c.depth + 1)
                /\ EndsWith(text, <<"\n">> \o Copies(unit, c.depth) \o <<CloseOf(c.node)>>)
                /\ Len(c.node.children) > 0 =>
                     StartsWith(text, <<OpenOf(c.node), "\n">>
                                        \o Copies(unit, c.depth + 1)
                                        \o format(c.node.children[1], c.depth + 1,
                                                  options).text)
        /\ IndentUnit(DefaultOptions) = <<" ", " ", " ", " ">>
        /\ indent_string(1, DefaultOptions) = <<" ", " ", " ", " ">>

\* a tree with a member two levels down has been rendered with use_tabs set
\* and spaces = 2
C11_Witness ==
    /\ pc = "formatted"
    /\ options.use_tabs
    /\ options.spaces = 2
    /\ \E c \in Composites(tree, 0) : c.depth = 2 /\ Len(c.node.children) > 0
    /\ \E i \in 1..Len(output) : output[i] = "\t"

\* C12: a run on another layout of the same lexemes, with the options of
\* the first run, yields the token sequence of the first run, the same tree,
\* and ends as the first run did: with the same text, or with the same
\* failure.
C12_LayoutIndependent ==
    pass = 2 =>
        /\ ~(pc = "failed" /\ outcome.stage = "tokenize" /\ first.tokens # <<>>)
        /\ pc \in {"tokenized", "parsed", "formatted"} => tokens = first.tokens
        /\ pc \in {"parsed", "formatted"} => tree = first.tree
        /\ pc = "formatted" => (output = first.output /\ first.outcome = NoOutcome)
        /\ pc = "failed" => outcome = first.outcome

\* [1,"b c"] written without whitespace was rendered first, and a layout of
\* it with newlines between the lexemes has been rendered to the same text
C12_Witness ==
    /\ pass = 2
    /\ pc = "formatted"
    /\ first.input = <<"[", "1", ",">> \o Quote(<<"b", " ", "c">>) \o <<"]">>
    /\ Len(input) > Len(first.input) + 12
    /\ output = first.output
    /\ Len(output) > 0

\* C13: once tokenize has returned, the token vector is not empty, its last
\* element is End and no earlier element is; tokenize pushes at most one
\* token per character before it.
C13_EndExactlyOnceLast ==
    /\ pc = "tokenized" => tokens # <<>>
    /\ tokens # <<>> =>
         /\ tokens[Len(tokens)] = Tok("End")
         /\ \A i \in 1..(Len(tokens) - 1) : tokens[i].type # "End"
         /\ Len(tokens) <= Len(input) + 1

\* a text that ends in whitespace has been tokenized to three tokens and End
C13_Witness ==
    /\ pc = "tokenized"
    /\ Len(tokens) = 4
    /\ input # <<>>
    /\ input[Len(input)] = " "
    /\ tokens[4].type = "End"

\* the positions of the double quotes of a text, in order
QuotePositions(cs) == SelectSeq([i \in 1..Len(cs) |-> i], LAMBDA i : cs[i] = "\"")

\* the texts between the 1st and 2nd, the 3rd and 4th, ... double quote
QuotedTexts(cs) ==
    LET q == QuotePositions(cs)
    IN [j \in 1..(Len(q) \div 2) |-> SubSeq(cs, q[2 * j - 1] + 1, q[2 * j] - 1)]

\* the texts of the string tokens, in order
StringTexts(ts) ==
    LET ss == SelectSeq(ts, LAMBDA t : t.type = "StringValue")
    IN [j \in 1..Len(ss) |-> ss[j].text]

ExBackslashQuote == <<"[">> \o Quote(<<"a", "\\">>) \o <<"]">>

\* C14: when tokenize returns, the double quotes of the text pair up first
\* with second, third with fourth, and the string tokens carry exactly the
\* characters between each pair, a backslash included: ["a\"] gives the
\* string a\ ; and a rendered text holds the strings of its tree, in order
\* and unchanged, between its quotes.
C14_StringIsVerbatim ==
    /\ tokens # <<>> =>
         /\ ~OddQuotes(input)
         /\ StringTexts(tokens) = QuotedTexts(input)
    /\ (input = ExBackslashQuote /\ pc # "start") =>
         /\ Len(tokens) = 4
         /\ tokens[2] = StringValue(<<"a", "\\">>)
    /\ pc = "formatted" => QuotedTexts(output) = StringTexts(TreeTokens(tree))

\* ["a\"] has been rendered, the backslash in the text
C14_Witness ==
    /\ pass = 1
    /\ input = ExBackslashQuote
    /\ pc = "formatted"
    /\ \E i \in 2..Len(output) : output[i - 1] = "a" /\ output[i] = "\\"

\* the characters that are a token of their own, and the whitespace
Delimiters == {"{", "}", "[", "]", ":", ",", " ", "\t", "\n", "\r"}

\* the first position of a text that holds neither a one-character token
\* nor whitespace (one past the end when there is none): the scan reaches
\* it at a token boundary whatever comes later
FirstLexeme(cs) ==
    CHOOSE p \in 1..(Len(cs) + 1) :
        /\ \A i \in 1..(p - 1) : cs[i] \in Delimiters
        /\ (p = Len(cs) + 1 \/ cs[p] \notin Delimiters)

\* one past the longest run of characters of S that starts at p
RunEnd(cs, p, S) ==
    CHOOSE q \in p..(Len(cs) + 1) :
        /\ \A i \in p..(q - 1) : cs[i] \in S
        /\ (q = Len(cs) + 1 \/ cs[q] \notin S)

\* the index, in the token vector, of the token that starts at p
TokenIndex(cs, p) ==
    1 + Cardinality({i \in 1..(p - 1) : cs[i] \in {"{", "}", "[", "]", ":", ","}})

OnlyDelimitersFrom(cs, q) == \A i \in q..Len(cs) : cs[i] \in Delimiters

\* tokenize has panicked with msg and handed back no token
ScanFailed(msg) ==
    /\ pc = "failed"
    /\ outcome.stage = "tokenize"
    /\ outcome.kind = "panic"
    /\ outcome.msg = msg
    /\ tokens = <<>>
    /\ tree = NoNode
    /\ output = <<>>

\* the run that starts at p has become the token tok: tokenize did not fail
\* on it (it returns when only delimiters follow), and whenever it returns
\* the token is in its place
RunIsToken(p, q, tok) ==
    /\ OnlyDelimitersFrom(input, q) => tokens # <<>>
    /\ tokens # <<>> => tokens[TokenIndex(input, p)] = tok

NumberRunChars == AsciiDigit \cup {"."}

\* C15 as stated: the longest run of digits and '.' that starts at a digit
\* gives one NumberValue, unless it has more than one '.' or ends in '.',
\* in which case tokenize fails on it with the malformed-number message.
C15_MalformedRunFails ==
    LET p == FirstLexeme(input)
        q == RunEnd(input, p, NumberRunChars)
        run == SubSeq(input, p, q - 1)
    IN (pc # "start" /\ p <= Len(input) /\ input[p] \in AsciiDigit) =>
          IF CountOf(".", run) > 1 \/ run[Len(run)] = "."
          THEN ScanFailed("Unexpected number")
          ELSE RunIsToken(p, q, NumberValue(parse_f64(run).value))

\* C15 as amended: the longest run of digits and '.' that starts at a digit
\* gives one NumberValue, also when it ends in '.' (1. is the number 1),
\* unless it has more than one '.', in which case tokenize fails on it with
\* the malformed-number message.
C15_DigitRunIsOneNumber ==
    LET p == FirstLexeme(input)
        q == RunEnd(input, p, NumberRunChars)
        run == SubSeq(input, p, q - 1)
    IN (pc # "start" /\ p <= Len(input) /\ input[p] \in AsciiDigit) =>
          /\ IF CountOf(".", run) > 1
             THEN ScanFailed("Unexpected number")
             ELSE RunIsToken(p, q, NumberValue(parse_f64(run).value))
          /\ run = <<"1", ".">> => RunIsToken(p, q, NumberValue([m |-> 1, s |-> 0]))
          /\ run = <<"1", "1", ".">> => RunIsToken(p, q, NumberValue([m |-> 11, s |-> 0]))

\* [1.] has been tokenized: the run 1. is the number 1
C15_Witness ==
    /\ input = <<"[", "1", ".", "]">>
    /\ pc = "tokenized"
    /\ tokens[2] = NumberValue([m |-> 1, s |-> 0])

\* C16: the longest alphanumeric run that starts at a letter gives
\* BooleanValue(true), BooleanValue(false) or NullValue when it is exactly
\* true, false or null; on any other run tokenize fails with the
\* unexpected-keyword message.
C16_KeywordRunIsExact ==
    LET p == FirstLexeme(input)
        q == RunEnd(input, p, AsciiDigit \cup AsciiLower \cup AsciiUpper)
        run == SubSeq(input, p, q - 1)
    IN (pc # "start" /\ p <= Len(input) /\ input[p] \in AsciiLower \cup AsciiUpper) =>
          CASE run = <<"t", "r", "u", "e">> -> RunIsToken(p, q, BooleanValue(TRUE))
            [] run = <<"f", "a", "l", "s", "e">> -> RunIsToken(p, q, BooleanValue(FALSE))
            [] run = <<"n", "u", "l", "l">> -> RunIsToken(p, q, Tok("NullValue"))
            [] OTHER -> ScanFailed("Unexpected keyword")

\* [true1] has been refused: the run true1 is no keyword
C16_Witness ==
    /\ input = <<"[", "t", "r", "u", "e", "1", "]">>
    /\ ScanFailed("Unexpected keyword")

\* the number of double quotes before position i is even: i is not inside a
\* string literal
OutsideString(cs, i) == CountOf("\"", SubSeq(cs, 1, i - 1)) % 2 = 0

\* C17: a character other than a delimiter, whitespace, a double quote, a
\* digit or a letter where the scan looks for a token makes tokenize fail at
\* once with the unexpected-character message, and nothing is parsed or
\* rendered; no text with a '-' or a backslash outside a string, or with a
\* '.' outside a string that does not follow a digit or a '.', is tokenized.
C17_UnexpectedCharacterFails ==
    LET p == FirstLexeme(input)
    IN pc # "start" =>
          /\ (p <= Len(input)
                /\ input[p] \notin {"\""} \cup AsciiDigit \cup AsciiLower \cup AsciiUpper)
               => ScanFailed("Unexpected character")
          /\ \A i \in 1..Len(input) :
               (/\ OutsideString(input, i)
                /\ \/ input[i] \in {"-", "\\"}
                   \/ /\ input[i] = "."
                      /\ (i = 1 \/ input[i - 1] \notin NumberRunChars))
               => (pc = "failed" /\ outcome.stage = "tokenize" /\ tokens = <<>>)

\* [-1 has been refused at the '-'
C17_Witness ==
    /\ input = <<"[", "-", "1">>
    /\ ScanFailed("Unexpected character")

\* the children of every object are PropertyAssignment nodes, and every
\* PropertyAssignment has an object as its parent
RECURSIVE PropertiesInPlace(_, _)
PropertiesInPlace(node, parent) ==
    /\ node.kind = "PropertyAssignment" => parent = "ObjectLiteralExpression"
    /\ node.kind = "ObjectLiteralExpression" =>
         \A i \in 1..Len(node.children) : node.children[i].kind = "PropertyAssignment"
    /\ \A i \in 1..Len(node.children) : PropertiesInPlace(node.children[i], node.kind)

\* C18: in a tree the parser returned, every child of an object is a
\* PropertyAssignment, and a PropertyAssignment is nowhere but directly
\* under an object: not the root, not an array element, not a property's
\* key or value.
C18_PropertiesOnlyUnderObjects ==
    (FromText /\ tree # NoNode) => PropertiesInPlace(tree, "None")

\* the parser has returned an object whose property holds an array that
\* holds an object with a property
C18_Witness ==
    /\ pass = 1
    /\ pc = "parsed"
    /\ tokens # <<>>
    /\ tree.kind = "ObjectLiteralExpression"
    /\ \E c \in Composites(tree, 0) :
         /\ c.depth = 1
         /\ c.node.kind = "ArrayLiteralExpression"
         /\ Len(c.node.children) = 1
         /\ c.node.children[1].kind = "ObjectLiteralExpression"
         /\ Len(c.node.children[1].children) = 1

\* every node of a tree
RECURSIVE Nodes(_)
Nodes(node) == {node} \cup UNION {Nodes(node.children[i]) : i \in 1..Len(node.children)}

PropertyAssignments(node) == {n \in Nodes(node) : n.kind = "PropertyAssignment"}

ValueKinds ==
    {"StringLiteral", "NumberLiteral", "TrueKeyword", "FalseKeyword", "NullKeyword",
     "ObjectLiteralExpression", "ArrayLiteralExpression"}

NestedObjectFormatted ==
    <<"{", "\n", " ", " ">> \o Quote(<<"a">>) \o <<":", " ", "{", "\n">>
      \o <<" ", " ", " ", " ">> \o Quote(<<"b">>) \o <<":", " ", "1", "\n">>
      \o <<" ", " ", "}", "\n", "}">>

\* C20: once the formatter has run on a parsed tree, every PropertyAssignment
\* of it renders as its key between double quotes, a colon, one space and
\* the rendered value; a value that is an object or array has its members
\* one level deeper than the property line and its closing delimiter at the
\* indent of the property line; {"a": {"b": 1}} with spaces = 2 gives
\* "{\n  \"a\": {\n    \"b\": 1\n  }\n}".
C20_PropertyRendering ==
    (FromText /\ tree # NoNode /\ pc \in {"formatted", "failed"}) =>
        /\ \A c \in Composites(tree, 0) :
             c.node.kind = "ObjectLiteralExpression" =>
               \A i \in 1..Len(c.node.children) :
                 LET n == c.node.children[i]
                     d == c.depth + 1
                     v == n.children[Len(n.children)]
                     r == format(n, d, options)
                 IN /\ r.kind = "ok"
                    /\ r.text = Quote(n.children[1].text) \o <<":", " ">>
                                  \o format(v, d, options).text
                    /\ IsComposite(v) =>
                         /\ EndsWith(r.text, <<"\n">> \o Copies(IndentUnit(options), d)
                                               \o <<CloseOf(v)>>)
                         /\ Len(v.children) > 0 =>
                              StartsWith(format(v, d, options).text,
                                         <<OpenOf(v), "\n">>
                                           \o Copies(IndentUnit(options), d + 1))
        /\ (pass = 1 /\ input = ExNestedObject
              /\ options = FormatOptions(2, FALSE, FALSE)) =>
             (pc = "formatted" /\ output = NestedObjectFormatted)

LeafKinds ==
    {"StringLiteral", "NumberLiteral", "TrueKeyword", "FalseKeyword", "NullKeyword"}

\* the decimal digits of a natural number below 100: the digit string
\* without a leading zero that reads back as the number
DecimalDigits(m) ==
    CHOOSE ds \in SeqsUpTo(AsciiDigit, 2) :
        /\ ds # <<>>
        /\ DigitsValue(ds) = m
        /\ (Len(ds) > 1 => ds[1] # "0")

\* the literal text of a leaf: the string between double quotes, the digits
\* of an integral number, digits '.' digits for 1.5, the keyword
LiteralText(n) ==
    CASE n.kind = "StringLiteral" -> <<"\"">> \o n.text \o <<"\"">>
      [] n.kind = "NumberLiteral" /\ n.value.s = 0 -> DecimalDigits(n.value.m)
      [] n.kind = "NumberLiteral" /\ n.value = [m |-> 15, s |-> 1] -> <<"1", ".", "5">>
      [] n.kind = "TrueKeyword" -> <<"t", "r", "u", "e">>
      [] n.kind = "FalseKeyword" -> <<"f", "a", "l", "s", "e">>
      [] n.kind = "NullKeyword" -> <<"n", "u", "l", "l">>

\* C21: every leaf of a rendered tree renders as its literal text at every
\* indent depth and under every option set, and the formatter is left at
\* the depth it was called at; a rendered array of leaves is its leaves'
\* literal texts, one per line.
C21_LeafIsLiteralText ==
    pc = "formatted" =>
        /\ \A n \in Nodes(tree) :
             n.kind \in LeafKinds =>
               \A d \in 0..(MaxDepth + 1), o \in OptionSets :
                 format(n, d, o) = FOk(LiteralText(n), d)
        /\ (tree.kind = "ArrayLiteralExpression"
              /\ \A i \in 1..Len(tree.children) : tree.children[i].kind \in LeafKinds) =>
             output = <<"[">>
                        \o Flatten([i \in 1..Len(tree.children) |->
                              (IF i = 1 THEN <<>> ELSE <<",">>) \o <<"\n">>
                                \o IndentUnit(options) \o LiteralText(tree.children[i])])
                        \o <<"\n", "]">>

\* [1, 2, 3] has been rendered with tabs: the integral numbers as their
\* digits
C21_Witness ==
    /\ pc = "formatted"
    /\ pass = 1
    /\ input = ExOneTwoThree
    /\ options.use_tabs
    /\ tree.children[1] = NumberLiteral([m |-> 1, s |-> 0])
    /\ output = <<"[", "\n", "\t", "1", ",", "\n", "\t", "2", ",",
                  "\n", "\t", "3", "\n", "]">>

CoreStages == {"tokenize", "parse", "format"}

\* C22: the file changes only in the step that creates it, taken after the
\* text has been formatted in full, and in the step that writes that text;
\* a step in which tokenize, parse or format fails is a panic that leaves
\* the file with the contents that were read, and no step follows a
\* failure.
C22_FileWrittenOnlyAfterFormat ==
    [][ /\ file' # file =>
             /\ pc \in {"formatted", "created"}
             /\ outcome = NoOutcome
             /\ output = format(tree, 0, options).text
             /\ output # <<>>
             /\ file' # <<>> => (pc = "created" /\ StartsWith(output, file'))
        /\ (pc' = "failed" /\ outcome'.stage \in CoreStages) =>
             /\ outcome'.kind = "panic"
             /\ file' = input'
             /\ file' = file
        /\ pc # "failed"
      ]_vars

\* {"hello": "world"} was read, format has panicked, the file is as it was
C22_Witness ==
    /\ pc = "failed"
    /\ outcome.stage = "format"
    /\ file = ExHelloWorld
    /\ input = file

\* parse has run on the tokens of the input
ParseDone == pc \in {"parsed", "failed"} /\ tokens # <<>>

ParseFailed(msg) ==
    /\ pc = "failed"
    /\ outcome = [stage |-> "parse", kind |-> "panic", msg |-> msg]
    /\ tree = NoNode

\* every text of the family with its gap and the tree of key : value
ColonCases ==
    {[text |-> ColonDoc(g, v, m), gap |-> g, node |-> ColonTree(v, m)] :
        g \in ColonGaps, v \in MemberValues, m \in BOOLEAN}

\* C23 as stated: whatever stands between a key and its value, one token
\* of any type or nothing at all, the object is accepted and its tree is
\* that of key : value.
C23_ColonNeverNeeded ==
    ParseDone =>
        \A c \in ColonCases : input = c.text => (pc = "parsed" /\ tree = c.node)

\* C23: the token after a key is consumed unchecked: with any one token in
\* the colon's place the object is accepted and its tree is that of
\* key : value; with no token there the value is consumed in the colon's
\* place and the parse fails with "Unexpected token of input".
C23_ColonTokenUnchecked ==
    ParseDone =>
        \A c \in ColonCases :
            input = c.text =>
                IF c.gap # <<>>
                THEN pc = "parsed" /\ tree = c.node
                ELSE ParseFailed("Unexpected token of input")

\* { "a" , [ 1 ] } has been parsed with the comma taken for the colon
C23_Witness ==
    /\ pc = "parsed"
    /\ input = ColonDoc(<< <<",">> >>, CHOOSE v \in MemberValues : v.pieces[1] = <<"[">>,
                        FALSE)
    /\ tree = MkNode("ObjectLiteralExpression",
                     <<Property(<<"a">>, MkNode("ArrayLiteralExpression", <<One>>))>>)

OneTwoArray == MkNode("ArrayLiteralExpression", <<One, Two>>)

OneTwoObject ==
    MkNode("ObjectLiteralExpression", <<Property(<<"a">>, One), Property(<<"c">>, Two)>>)

\* every text of the two families with the tree of its two members
CommaCases ==
    {[text |-> CommaArray(g), node |-> OneTwoArray] : g \in CommaGaps}
      \cup {[text |-> CommaObject(g), node |-> OneTwoObject] : g \in CommaGaps}

\* C24: commas are skipped wherever they stand and never required: two
\* members with any number of commas (or none) before, between and after
\* them parse to the same array or object; [,1,,2,] and [1 2] parse like
\* [1, 2].
C24_CommasSkippedNeverRequired ==
    ParseDone =>
        /\ \A c \in CommaCases : input = c.text => (pc = "parsed" /\ tree = c.node)
        /\ input \in {ExCommasEverywhere, ExNoComma, ExOneTwo} =>
              (pc = "parsed" /\ tree = OneTwoArray)

\* [,1,,2,] has been parsed to the array of 1 and 2
C24_Witness ==
    /\ pc = "parsed"
    /\ input = ExCommasEverywhere
    /\ tree = OneTwoArray

\* every root followed by tokens, with the tree of the root
TrailCases ==
    {[text |-> TrailDoc(r, t), node |-> r.node] :
        r \in TrailRoots, t \in SeqsUpTo(TokenPieces, MaxTrail)}

\* C27: parse stops at the closing delimiter of the root and asks for
\* nothing after it: whatever tokens follow a complete root, the parse
\* succeeds and the tree is that of the root alone; [1] [2] parses as [1].
C27_StopsAtRootClose ==
    ParseDone =>
        /\ \A c \in TrailCases : input = c.text => (pc = "parsed" /\ tree = c.node)
        /\ input = ExTwoRoots =>
              (pc = "parsed" /\ tree = MkNode("ArrayLiteralExpression", <<One>>))

\* [1] [2] has been parsed to the array of 1, with the tokens of [2] and
\* End left in the stream
C27_Witness ==
    /\ pc = "parsed"
    /\ input = ExTwoRoots
    /\ Len(tokens) = 7
    /\ tree = MkNode("ArrayLiteralExpression", <<One>>)

\* the delimiters of ts from i on pair up, each closer with the opener of
\* its own kind, down to the closer of the first opener
RECURSIVE BracketsMatch(_, _, _)
BracketsMatch(ts, i, open) ==
    IF i > Len(ts) THEN FALSE
    ELSE CASE ts[i].type \in {"LBrace", "LBracket"} ->
                 BracketsMatch(ts, i + 1, <<ts[i].type>> \o open)
           [] ts[i].type \in {"RBrace", "RBracket"} ->
                 /\ open # <<>>
                 /\ open[1] = (IF ts[i].type = "RBrace" THEN "LBrace" ELSE "LBracket")
                 /\ Len(open) = 1 \/ BracketsMatch(ts, i + 1, Tail(open))
           [] ts[i].type = "End" -> FALSE
           [] OTHER -> open # <<>> /\ BracketsMatch(ts, i + 1, open)

NoKeys(ts) == \A i \in 1..Len(ts) : ts[i].type # "StringValue"

\* C28: closers must match: a composite whose loop meets the wrong closer
\* (] in an object; }, : or the end in an array) fails the parse with
\* "Unexpected token of input", at the root or nested; [1} and {"a": 1] are
\* rejected; and a parse that succeeds on tokens without a string (after a
\* key one token is consumed outside every loop) has paired every closer
\* with an opener of its own kind.
C28_ClosersMustMatch ==
    ParseDone =>
        /\ (pc = "parsed" /\ NoKeys(tokens)) => BracketsMatch(tokens, 1, <<>>)
        /\ input \in CloserInputs => ParseFailed("Unexpected token of input")

\* [1} has been refused by parse
C28_Witness ==
    /\ input = ExBraceClosesArray
    /\ tokens = <<Tok("LBracket"), NumberValue([m |-> 1, s |-> 0]), Tok("RBrace"),
                  Tok("End")>>
    /\ ParseFailed("Unexpected token of input")

\* the lookaheads that start an alternative of consume_value
ValueStarts ==
    {"StringValue", "NumberValue", "BooleanValue", "NullValue", "LBrace", "LBracket"}

\* the call made by this step has a lookahead that starts no alternative
NoAlternative ==
    /\ pc = "tokenized"
    /\ pc' = "called"
    /\ \/ /\ outcome'.stage = "consume_value"
          /\ peek_token(tokens, token_pos) \notin ValueStarts
       \/ /\ outcome'.stage = "consume_property_assignment"
          /\ peek_token(tokens, token_pos) # "StringValue"

\* C29: a call of consume_property_assignment or consume_value whose
\* lookahead starts no alternative returns Err("Unexpected token of input")
\* and leaves the token stream where it was.
C29_RejectedCallLeavesStream ==
    [][ NoAlternative =>
          /\ outcome'.kind = "err"
          /\ outcome'.msg = "Unexpected token of input"
          /\ token_pos' = token_pos
          /\ tokens' = tokens
          /\ tree' = NoNode
      ]_vars

\* consume_value has been called with } as the lookahead, after the stream
\* had been advanced, and } is still the next token
C29_Witness ==
    /\ pc = "called"
    /\ outcome = [stage |-> "consume_value", kind |-> "err",
                  msg |-> "Unexpected token of input"]
    /\ token_pos > 1
    /\ peek_token(tokens, token_pos) = "RBrace"

\* the number of composites around the first Identifier of a tree in the
\* order of the walk, -1 when it has none
RECURSIVE FirstIdentifierDepth(_, _)
FirstIdentifierDepth(node, depth) ==
    IF node.kind = "Identifier" THEN depth
    ELSE LET inner == IF IsComposite(node) THEN depth + 1 ELSE depth
             hits == {i \in 1..Len(node.children) :
                         FirstIdentifierDepth(node.children[i], inner) >= 0}
         IN IF hits = {} THEN -1
            ELSE FirstIdentifierDepth(
                     node.children[CHOOSE i \in hits : \A j \in hits : i <= j], inner)

\* C25: the indent counter is the number of composites entered and not
\* left: it is never below zero, it is back at zero when format has
\* returned, a call of format on any composite of the tree returns with the
\* counter it was called with, a walk that stops at a node it cannot
\* format stops with the number of composites around that node, and a
\* second format call on the same Formatter gives the text of the first.
C25_IndentCountsOpenComposites ==
    /\ indent >= 0
    /\ pc \in {"formatted", "formatted again"} =>
          /\ indent = 0
          /\ \A c \in Composites(tree, 0) :
                LET r == format(c.node, c.depth, options)
                IN r.kind = "ok" /\ r.indent = c.depth
    /\ (pc = "failed" /\ outcome.stage = "format") =>
          indent = FirstIdentifierDepth(tree, 0)
    /\ pc = "formatted again" => output = first.output

\* {"hello": "world"} given to a Formatter as a tree, the key a
\* StringLiteral, has been formatted twice to the same text
C25_Witness ==
    /\ pc = "formatted again"
    /\ options = DefaultOptions
    /\ tree = MkNode("ObjectLiteralExpression",
                     <<MkNode("PropertyAssignment",
                              <<StringLiteral(<<"h", "e", "l", "l", "o">>),
                                StringLiteral(<<"w", "o", "r", "l", "d">>)>>)>>)
    /\ indent = 0
    /\ output = first.output
    /\ Len(output) > 2

\* what the loops have reached is what tokenize and parse return
StepsAgree ==
    /\ pc = "tokenized" =>
          Lexer_tokenize(input) = [kind |-> "ok", tokens |-> tokens, msg |-> ""]
    /\ pc = "parsed" => Parser_parse(tokens) = POk(tree, token_pos)
    /\ pc = "failed" =>
          LET t == Lexer_tokenize(input)
          IN IF outcome.stage = "tokenize"
             THEN t.kind = "panic" /\ t.msg = outcome.msg
             ELSE /\ t.kind = "ok"
                  /\ Parser_parse(t.tokens).kind = "panic"
                  /\ Parser_parse(t.tokens).msg = outcome.msg
                  /\ Parser_parse(t.tokens).pos = token_pos

\* C26: tokenizing and then parsing terminates: the character cursor and
\* the token cursor never move back, every iteration of the loops of
\* tokenize, consume_object and consume_array moves a cursor forward or ends
\* the call, and every run reaches a tree or a failure, the one tokenize
\* and parse return.
C26_PipelineTerminates ==
    /\ [][ /\ char_pos' >= char_pos
           /\ token_pos' >= token_pos
           /\ \/ char_pos' > char_pos
              \/ token_pos' > token_pos
              \/ pc' \in {"tokenized", "failed"} /\ pc' # pc
         ]_vars
    /\ []StepsAgree
    /\ <>(pc \in {"parsed", "failed"})

\* {"a": {"b": 1}} has been parsed loop by loop, both calls have returned
\* and the stream stands after the last closing brace
C26_Witness ==
    /\ pc = "parsed"
    /\ input = ExNestedObject
    /\ stack = <<>>
    /\ char_pos = Len(input) + 1
    /\ token_pos = Len(tokens)
    /\ tree = MkNode("ObjectLiteralExpression",
                     <<Property(<<"a">>,
                         MkNode("ObjectLiteralExpression", <<Property(<<"b">>, One)>>))>>)

\* a node of the later revision and one of the earlier are the same node:
\* same kind, text, value and members in order, the key of a
\* PropertyAssignment being the Identifier child of the one and the field of
\* the other
RECURSIVE Corresponds(_, _)
Corresponds(new, earlier) ==
    IF new.kind = "PropertyAssignment"
    THEN /\ earlier.kind = "PropertyAssignment"
         /\ Len(new.children) = 2
         /\ Len(earlier.children) = 1
         /\ new.children[1] = Identifier(earlier.text)
         /\ Corresponds(new.children[2], earlier.children[1])
    ELSE /\ earlier.kind = new.kind
         /\ earlier.text = new.text
         /\ earlier.value = new.value
         /\ Len(earlier.children) = Len(new.children)
         /\ \A i \in 1..Len(new.children) :
               Corresponds(new.children[i], earlier.children[i])

\* C30: on the tokens of any text the two revisions of the parser agree:
\* parse of the one fails exactly when parse of the other does (and so do
\* consume_value and parse_value), and when they succeed their trees
\* correspond node for node, the key of a property being a child in the one
\* and a field in the other, and both have consumed the same tokens.
C30_RevisionsAgree ==
    /\ (pc \in {"parsed", "failed"} /\ tokens # <<>> /\ old # NoOld) =>
          /\ (pc = "parsed") <=> (old.kind = "ok")
          /\ pc = "parsed" =>
                /\ Corresponds(tree, old.node)
                /\ old.pos = Parser_parse(tokens).pos
          /\ pc = "failed" => (old.kind = "panic" /\ old.msg = outcome.msg)
    /\ tokens # <<>> =>
          LET new == consume_value(tokens, 1)
              earlier == Old_parse_value(tokens, 1)
          IN /\ (new.kind = "ok") <=> (earlier.kind = "ok")
             /\ new.kind = "ok" => Corresponds(new.node, earlier.node)

\* both revisions have parsed {"a": {"b": 1}}: the earlier one holds the
\* keys a and b in the PropertyAssignment nodes
C30_Witness ==
    /\ pc = "parsed"
    /\ input = ExNestedObject
    /\ tree = MkNode("ObjectLiteralExpression",
                     <<Property(<<"a">>,
                         MkNode("ObjectLiteralExpression", <<Property(<<"b">>, One)>>))>>)
    /\ old.kind = "ok"
    /\ old.node = MkNode("ObjectLiteralExpression",
                         <<Old_PropertyAssignment(<<"a">>,
                             MkNode("ObjectLiteralExpression",
                                    <<Old_PropertyAssignment(<<"b">>, One)>>))>>)

====
